---- MODULE Spec2Model ----
(***************************************************************************)
(* A model of shaidow's terminal-transcript segmentation engine            *)
(* (src/script_to_jsonl.py, class ScriptParser).                           *)
(*                                                                         *)
(* Text is modelled as a sequence of characters.  A printable character is *)
(* the one-character string of itself; a control character is the string   *)
(* of its ASCII mnemonic ("ESC", "BEL", "TAB", "LF", ...; the grave accent *)
(* is "GRAVE", which the string syntax cannot hold).  Ascii gives          *)
(* every character its code, so that the character classes of the regular  *)
(* expressions are the ranges the source writes.                           *)
(***************************************************************************)
EXTENDS Integers, Sequences, FiniteSets, TLC

\* ------------------------------------------------------------------------
\* Bounds of the model
\* ------------------------------------------------------------------------

\* longest transcript, in lines
MaxLines == 4

\* ------------------------------------------------------------------------
\* Characters
\* ------------------------------------------------------------------------

\* the 7-bit character set, in code order (Ascii[c + 1] has code c)
Ascii ==
  << "NUL", "SOH", "STX", "ETX", "EOT", "ENQ", "ACK", "BEL",
     "BS",  "TAB", "LF",  "VT",  "FF",  "CR",  "SO",  "SI",
     "DLE", "DC1", "DC2", "DC3", "DC4", "NAK", "SYN", "ETB",
     "CAN", "EM",  "SUB", "ESC", "FS",  "GS",  "RS",  "US",
     " ", "!", "\"", "#", "$", "%", "&", "'", "(", ")", "*", "+", ",", "-", ".", "/",
     "0", "1", "2", "3", "4", "5", "6", "7", "8", "9", ":", ";", "<", "=", ">", "?",
     "@", "A", "B", "C", "D", "E", "F", "G", "H", "I", "J", "K", "L", "M", "N", "O",
     "P", "Q", "R", "S", "T", "U", "V", "W", "X", "Y", "Z", "[", "\\", "]", "^", "_",
     "GRAVE", "a", "b", "c", "d", "e", "f", "g", "h", "i", "j", "k", "l", "m", "n", "o",
     "p", "q", "r", "s", "t", "u", "v", "w", "x", "y", "z", "{", "|", "}", "~", "DEL" >>

Chars == { Ascii[i] : i \in 1..Len(Ascii) }

\* the code of a character
Ord == [ c \in Chars |-> (CHOOSE i \in 1..Len(Ascii) : Ascii[i] = c) - 1 ]

InRange(c, lo, hi) == Ord[lo] <= Ord[c] /\ Ord[c] <= Ord[hi]

\* str.isspace() of one 7-bit character; also the class \s of module re
IsSpace(c) == c \in { " ", "TAB", "LF", "VT", "FF", "CR", "FS", "GS", "RS", "US" }

\* ------------------------------------------------------------------------
\* String helpers (Python str methods used by the parser)
\* ------------------------------------------------------------------------

\* s[i:] with a 1-based i: the characters of s from position i on
Tail_(s, i) == SubSeq(s, i, Len(s))

\* s.startswith(p, at position i)
StartsWithAt(s, p, i) ==
  /\ i + Len(p) - 1 <= Len(s)
  /\ \A k \in 1..Len(p) : s[i + k - 1] = p[k]

\* str.lstrip()
RECURSIVE lstrip(_)
lstrip(s) ==
  IF s # << >> /\ IsSpace(Head(s)) THEN lstrip(Tail(s)) ELSE s

\* str.rstrip()
RECURSIVE rstrip(_)
rstrip(s) ==
  IF s # << >> /\ IsSpace(s[Len(s)]) THEN rstrip(SubSeq(s, 1, Len(s) - 1)) ELSE s

\* str.strip()
strip(s) == rstrip(lstrip(s))

\* the concatenation of the pieces ps[lo], ..., ps[hi]
RECURSIVE Concat(_, _, _)
Concat(ps, lo, hi) ==
  IF lo > hi THEN << >>
  ELSE IF lo = hi THEN ps[lo]
  ELSE LET mid == (lo + hi) \div 2
       IN  Concat(ps, lo, mid) \o Concat(ps, mid + 1, hi)

\* str.replace(old, new) for an old that cannot overlap itself (as "\r\n",
\* "\r" and "\x00" cannot): every occurrence of old becomes new
replace(s, old, new) ==
  LET starts == { i \in 1..Len(s) : StartsWithAt(s, old, i) }
      piece(i) == IF i \in starts THEN new
                  ELSE IF \E j \in starts : j < i /\ i < j + Len(old) THEN << >>
                  ELSE << s[i] >>
  IN  Concat([ i \in 1..Len(s) |-> piece(i) ], 1, Len(s))

\* str.split('\n'): the pieces between the line feeds, always at least one
split(s) ==
  LET lf == { i \in 1..Len(s) : s[i] = "LF" }
      \* the position of the k-th line feed; 0 and Len(s) + 1 stand for the
      \* two ends of s
      nth(k) == IF k = 0 THEN 0
                ELSE IF k > Cardinality(lf) THEN Len(s) + 1
                ELSE CHOOSE i \in lf : Cardinality({ j \in lf : j < i }) = k - 1
  IN  [ k \in 1..(Cardinality(lf) + 1) |-> SubSeq(s, nth(k - 1) + 1, nth(k) - 1) ]

\* '\n'.join(parts)
RECURSIVE join(_)
join(parts) ==
  IF parts = << >> THEN << >>
  ELSE IF Len(parts) = 1 THEN parts[1]
  ELSE parts[1] \o << "LF" >> \o join(Tail(parts))

\* str(n) for a natural number n: its decimal digits
RECURSIVE str(_)
str(n) ==
  IF n < 10 THEN << Ascii[Ord["0"] + n + 1] >>
  ELSE str(n \div 10) \o << Ascii[Ord["0"] + (n % 10) + 1] >>

\* ------------------------------------------------------------------------
\* The regular expressions of ScriptParser.__init__
\* ------------------------------------------------------------------------

\* the number of leading characters of s, from position i on, that satisfy
\* the class named cls (a greedy  [class]*  )
RECURSIVE RunLen(_, _, _)
InClass(cls, c) ==
  CASE cls = "param"        -> InRange(c, "0", "?")
    [] cls = "intermediate" -> InRange(c, " ", "/")
    [] cls = "notbel"       -> c # "BEL"
RunLen(cls, s, i) ==
  IF i <= Len(s) /\ InClass(cls, s[i]) THEN 1 + RunLen(cls, s, i + 1) ELSE 0

\* ansi_escape: the length of its match at position i of s, 0 for no match
ansi_escape(s, i) ==
  IF ~(i + 1 <= Len(s) /\ s[i] = "ESC") THEN 0
  ELSE IF InRange(s[i + 1], "@", "Z") \/ InRange(s[i + 1], "\\", "_") THEN 2
  ELSE IF s[i + 1] # "[" THEN 0
  ELSE LET p == i + 2 + RunLen("param", s, i + 2)
           q == p + RunLen("intermediate", s, p)
       IN  IF q <= Len(s) /\ InRange(s[q], "@", "~") THEN q - i + 1 ELSE 0

\* terminal_controls[0], set window title: ]0; then anything up to a BEL
set_window_title(s, i) ==
  IF ~StartsWithAt(s, << "]", "0", ";" >>, i) THEN 0
  ELSE LET q == i + 3 + RunLen("notbel", s, i + 3)
       IN  IF q <= Len(s) THEN q - i + 1 ELSE 0

\* terminal_controls[1], bracketed paste mode: an optional [ then ?2004h or ?2004l
bracketed_paste(s, i) ==
  LET body(j) == /\ StartsWithAt(s, << "?", "2", "0", "0", "4" >>, j)
                 /\ j + 5 <= Len(s)
                 /\ s[j + 5] \in { "h", "l" }
  IN  IF i <= Len(s) /\ s[i] = "[" /\ body(i + 1) THEN 7
      ELSE IF body(i) THEN 6
      ELSE 0

\* terminal_controls[2] and [3], shift out and shift in
shift_out(s, i) == IF i <= Len(s) /\ s[i] = "SO" THEN 1 ELSE 0
shift_in(s, i)  == IF i <= Len(s) /\ s[i] = "SI" THEN 1 ELSE 0

\* the class [\x00-\x1f\x7f]: the tab taken for a control character too
control_char_WithTab(s, i) ==
  IF i <= Len(s) /\ s[i] # "LF" /\ (InRange(s[i], "NUL", "US") \/ s[i] = "DEL")
  THEN 1 ELSE 0

\* the class of the last re.sub of clean_line: control characters but tab
\* and line feed
control_char(s, i) ==
  IF i <= Len(s) /\ (InRange(s[i], "NUL", "BS") \/ InRange(s[i], "VT", "US")
                       \/ s[i] = "DEL")
  THEN 1 ELSE 0

\* the length of the match of the named pattern at position i of s
MatchLen(pat, s, i) ==
  CASE pat = "set_window_title" -> set_window_title(s, i)
    [] pat = "bracketed_paste"  -> bracketed_paste(s, i)
    [] pat = "shift_out"        -> shift_out(s, i)
    [] pat = "shift_in"         -> shift_in(s, i)
    [] pat = "ansi_escape"      -> ansi_escape(s, i)
    [] pat = "control_char"     -> control_char(s, i)

\* pattern.sub('', s): the leftmost non-overlapping matches removed, scanning
\* from position i
RECURSIVE sub(_, _, _)
sub(pat, s, i) ==
  IF i > Len(s) THEN << >>
  ELSE LET n == MatchLen(pat, s, i)
       IN  IF n > 0 THEN sub(pat, s, i + n)
           ELSE << s[i] >> \o sub(pat, s, i + 1)

\* the order of the list terminal_controls
terminal_controls == << "set_window_title", "bracketed_paste", "shift_out", "shift_in" >>

\* ScriptParser.clean_line
RECURSIVE apply_controls(_, _)
apply_controls(s, k) ==
  IF k > Len(terminal_controls) THEN s
  ELSE apply_controls(sub(terminal_controls[k], s, 1), k + 1)

clean_line(line) ==
  sub("control_char", sub("ansi_escape", apply_controls(line, 1), 1), 1)

\* normalize_content without the replacement of the lone carriage return
normalize_content_NoLoneCR(content) ==
  LET a == replace(content, << "CR", "LF" >>, << "LF" >>)
  IN  replace(a, << "NUL" >>, << >>)

\* ScriptParser.normalize_content
normalize_content(content) ==
  LET a == replace(content, << "CR", "LF" >>, << "LF" >>)
      b == replace(a, << "CR" >>, << "LF" >>)
  IN  replace(b, << "NUL" >>, << >>)

\* the literal prefixes of the two sentinel patterns
SCRIPT_STARTED_ON ==
  << "S", "c", "r", "i", "p", "t", " ", "s", "t", "a", "r", "t", "e", "d", " ", "o", "n" >>
SCRIPT_DONE_ON ==
  << "S", "c", "r", "i", "p", "t", " ", "d", "o", "n", "e", " ", "o", "n" >>

\* ^prefix.*?\[.*?\]$  matched at the start of a line: the prefix, later a [,
\* and a ] after it as the last character (no character of a line is LF)
SentinelMatch(prefix, line) ==
  /\ StartsWithAt(line, prefix, 1)
  /\ \E i \in (Len(prefix) + 1)..(Len(line) - 1) : line[i] = "["
  /\ line[Len(line)] = "]"
  /\ \A i \in 1..Len(line) : line[i] # "LF"

script_start(line) == SentinelMatch(SCRIPT_STARTED_ON, line)
script_end(line)   == SentinelMatch(SCRIPT_DONE_ON, line)

\* the terminator class [\$#%>] of prompt_pattern
IsTerminator(c) == c \in { "$", "#", "%", ">" }

\* TerminatorPositions for a prefix that may be empty (.*?): a terminator
\* anywhere in s
TerminatorPositions_EmptyPrefix(s) == { i \in 1..Len(s) : IsTerminator(s[i]) }

\* the positions of s at which prompt_pattern can end its prefix (.+?): a
\* terminator with at least one character before it
TerminatorPositions(s) == { i \in 2..Len(s) : IsTerminator(s[i]) }

\* prompt_pattern.match(s) is not None.  After the terminator \s*(.*)$ matches
\* whatever is left, since a line holds no LF.
prompt_match(s) ==
  /\ TerminatorPositions(s) # {}
  /\ \A i \in 1..Len(s) : s[i] # "LF"

\* PromptTerminator for a greedy prefix (.+): the last terminator
PromptTerminator_Greedy(s) ==
  CHOOSE i \in TerminatorPositions(s) : \A j \in TerminatorPositions(s) : i >= j

\* the position of the terminator the match uses: the prefix .+? is lazy, so
\* the match found first is the one with the shortest prefix
PromptTerminator(s) ==
  CHOOSE i \in TerminatorPositions(s) : \A j \in TerminatorPositions(s) : i <= j

\* prompt_match.group(2): what follows the terminator and the whitespace \s*
\* takes after it
prompt_group2(s) == lstrip(Tail_(s, PromptTerminator(s) + 1))

\* ------------------------------------------------------------------------
\* Transcripts
\* ------------------------------------------------------------------------

\* Script started on [x]
StartLine == SCRIPT_STARTED_ON \o << " ", "[", "x", "]" >>
\* Script done on [x]
EndLine == SCRIPT_DONE_ON \o << " ", "[", "x", "]" >>

\* the lines transcripts are made of: the two sentinels, a prompt with a
\* command (u$ ls), a bare prompt (u$ ), the command text again behind a
\* colour sequence (ESC[0mls), a line indented by a space and one indented by
\* a tab, a blank line, a prompt line with two terminators (a#b$ ls) and a
\* line whose only terminator is its first character ($ ls)
LinePool ==
  { StartLine,
    EndLine,
    << "u", "$", " ", "l", "s" >>,
    << "u", "$", " " >>,
    << "ESC", "[", "0", "m", "l", "s" >>,
    << " ", "a" >>,
    << "TAB", "b" >>,
    << >>,
    << "a", "#", "b", "$", " ", "l", "s" >>,
    << "$", " ", "l", "s" >> }

\* the transcripts of at most MaxLines lines, as the lists of lines that
\* content.split('\n') gives (never the empty list)
Transcripts == UNION { [1..n -> LinePool] : n \in 1..MaxLines }

\* the transcripts that the script command writes: the start sentinel is the
\* first line, at most MaxLines lines follow
SessionTranscripts ==
  { << StartLine >> \o t : t \in UNION { [1..n -> LinePool] : n \in 0..MaxLines } }

\* the lines of the session of spec.md 8, Scenario 1 (user@host:~$ echo hi,
\* hi, user@host:~$ exit, the end sentinel), and the output line once more
\* with a space behind it
ScenarioPool ==
  { EndLine,
    << "u", "s", "e", "r", "@", "h", "o", "s", "t", ":", "~", "$", " ",
       "e", "c", "h", "o", " ", "h", "i" >>,
    << "h", "i" >>,
    << "h", "i", " " >>,
    << "u", "s", "e", "r", "@", "h", "o", "s", "t", ":", "~", "$", " ",
       "e", "x", "i", "t" >> }

\* the sessions made of the lines of the scenario: the start sentinel and at
\* most MaxLines lines
ScenarioTranscripts ==
  { << StartLine >> \o t : t \in UNION { [1..n -> ScenarioPool] : n \in 0..MaxLines } }

\* the lines of the input file: the end sentinel, a prompt with a command,
\* an indented output line, and an output line with a quote, a backslash
\* and a tab
ToolPool ==
  { EndLine,
    << "u", "$", " ", "l", "s" >>,
    << " ", "a" >>,
    << "\"", "\\", "TAB", "b" >> }

\* the lines of the sessions about prompts: the end sentinel, a prompt with a
\* command (u$ ls), a bare prompt (u$ ), and lines whose only terminator is
\* the first character of the cleaned line: $ ls, > foo, a % alone, and # x
\* behind a colour sequence (ESC[0m# x)
PromptPool ==
  { EndLine,
    << "u", "$", " ", "l", "s" >>,
    << "u", "$", " " >>,
    << "$", " ", "l", "s" >>,
    << ">", " ", "f", "o", "o" >>,
    << "%" >>,
    << "ESC", "[", "0", "m", "#", " ", "x" >> }

\* the sessions made of these lines: the start sentinel and at most MaxLines
\* lines
PromptTranscripts ==
  { << StartLine >> \o t : t \in UNION { [1..n -> PromptPool] : n \in 0..MaxLines } }

\* clean_line on the lines of the pools, computed once
CleanedPool ==
  [ l \in LinePool \cup ScenarioPool \cup ToolPool \cup PromptPool |-> clean_line(l) ]

\* self.clean_line(line), read from CleanedPool for a line of the pools
Clean(line) ==
  IF line \in DOMAIN CleanedPool THEN CleanedPool[line] ELSE clean_line(line)

\* ------------------------------------------------------------------------
\* State of one call of ScriptParser.parse_script_output
\* ------------------------------------------------------------------------

VARIABLES
  lines,            \* content.split('\n'), content normalized
  idx,              \* position of the for loop in lines (1-based)
  in_session,       \* a start sentinel has been seen
  current_command,  \* the open command, or None
  current_output,   \* the output lines buffered for the open command
  command_id,       \* the id of the next record
  commands,         \* the records emitted so far
  pc,               \* "loop": in the for loop; "final": at the code after the
                    \* loop; "done": returned; the other values are the
                    \* places of script_to_jsonl, main and clean_line
  raw_content,      \* content, the argument of parse_script_output, or None
  transcript,       \* the lines that raw_content was written from, or None
  text_in,          \* the argument of clean_line, or None
  text_once,        \* clean_line(text_in), or None
  text_twice,       \* clean_line(clean_line(text_in)), or None
  disk_input,       \* the text of the file at input_file, or Missing
  verbose,          \* args.verbose
  fault,            \* the operation of script_to_jsonl that raises
  out_file,         \* the text of the file at output_file, or Missing
  written,          \* the number of records written by the for loop
  stdout,           \* the messages printed to sys.stdout
  stderr,           \* the messages printed to sys.stderr
  exit_code,        \* the exit status of the process, or None
  other_call,       \* a second call of parse_script_output on the same
                    \* ScriptParser: its pc, lines, idx and local variables,
                    \* or None
  status_in,        \* tools: tool.name, tool_call.arguments and
                    \* tool_result.output of one tool call, or None
  status_out,       \* tools: what during_call_status_message,
                    \* after_call_status_message and spinner gave for it
  shaidow_args,     \* shaidow: args of the command line
  files,            \* shaidow: the paths that exist
  temp_dir,         \* shaidow: the temporary directory made, or None
  fifo_path,        \* shaidow: the path of the FIFO
  fifo_lines,       \* shaidow: the lines written to the FIFO and not read
  writer_open,      \* shaidow: the writing end of the FIFO is open
  fifo_line,        \* shaidow: line of main, the last line read
  suggested_commands, \* shaidow: suggested_commands
  prompts,          \* shaidow: the calls of conversation.prompt
  console,          \* shaidow: what was printed
  tmux_keys         \* shaidow: the calls of tmux send-keys

\* the local variables of parse_script_output
parse_vars == << lines, idx, in_session, current_command, current_output,
                command_id, commands >>

\* the arguments of clean_line and its results
clean_vars == << text_in, text_once, text_twice >>

\* the files, the streams and the exit status of the process
tool_vars == << disk_input, verbose, fault, out_file, written, stdout, stderr,
               exit_code >>

\* the tool call of the package tools and its status messages
status_vars == << status_in, status_out >>

\* the process of shaidow, its FIFO and its conversation
shaidow_vars ==
  << shaidow_args, files, temp_dir, fifo_path, fifo_lines, writer_open, fifo_line,
     suggested_commands, prompts, console, tmux_keys >>

\* the state outside one run of the command line: a second call of
\* parse_script_output, and the assistant around the converter
aside_vars == << other_call, status_vars, shaidow_vars >>

\* what the loop of parse_script_output leaves alone
env_vars == << raw_content, transcript, clean_vars, tool_vars, aside_vars >>

vars == << parse_vars, pc, env_vars >>

\* Python's None for current_command: a value that is no text (its one
\* element is not a character)
None == << "None" >>

\* the local variables of the parse as one value
ParserState ==
  [ in_session      |-> in_session,
    current_command |-> current_command,
    current_output  |-> current_output,
    command_id      |-> command_id,
    commands        |-> commands ]

\* the local variables before the loop
InitialState ==
  [ in_session      |-> FALSE,
    current_command |-> None,
    current_output  |-> << >>,
    command_id      |-> 1,
    commands        |-> << >> ]

\* CommandRecord that forgets the buffered output
CommandRecord_NoOutput(st) ==
  [ id      |-> str(st.command_id),
    command |-> st.current_command,
    output  |-> << >> ]

\* the record built from the open command and its buffer
CommandRecord(st) ==
  [ id      |-> str(st.command_id),
    command |-> st.current_command,
    output  |-> strip(join(st.current_output)) ]

\* FinalizePrevious without  command_id += 1
FinalizePrevious_NoIncrement(st) ==
  IF st.current_command # None
  THEN [ st EXCEPT !.commands = Append(@, CommandRecord(st)) ]
  ELSE st

\* FinalizePrevious without the test  if current_command
FinalizePrevious_Unconditional(st) ==
  [ st EXCEPT !.commands = Append(@, CommandRecord(st)),
              !.command_id = @ + 1 ]

\* "Finalize previous command": append the record of an open command and
\* count it
FinalizePrevious(st) ==
  IF st.current_command # None
  THEN [ st EXCEPT !.commands = Append(@, CommandRecord(st)),
                   !.command_id = @ + 1 ]
  ELSE st

\* OnPromptLine that finalizes the open command only when the prompt carries
\* a command
OnPromptLine_BareDiscards(st, cleaned) ==
  LET command_part == strip(prompt_group2(cleaned))
      finalized == IF command_part # << >> THEN FinalizePrevious(st) ELSE st
  IN  [ finalized EXCEPT
          !.current_command = IF command_part # << >> THEN command_part ELSE None,
          !.current_output = << >> ]

\* OnPromptLine that leaves the finalized command open on a bare prompt
OnPromptLine_KeepsOpenOnBare(st, cleaned) ==
  LET command_part == strip(prompt_group2(cleaned))
  IN  [ FinalizePrevious(st) EXCEPT
          !.current_command = IF command_part # << >> THEN command_part ELSE @,
          !.current_output = << >> ]

\* OnPromptLine that opens a command on every prompt line, the empty one on
\* a bare prompt
OnPromptLine_OpensEmpty(st, cleaned) ==
  LET command_part == strip(prompt_group2(cleaned))
  IN  [ FinalizePrevious(st) EXCEPT
          !.current_command = command_part,
          !.current_output = << >> ]

\* the branch  if prompt_match:  of the loop body, on a cleaned line
OnPromptLine(st, cleaned) ==
  LET command_part == strip(prompt_group2(cleaned))
  IN  [ FinalizePrevious(st) EXCEPT
          !.current_command = IF command_part # << >> THEN command_part ELSE None,
          !.current_output = << >> ]

\* OnOtherLine that takes a line for the echo only right after the command
OnOtherLine_EchoFirstOnly(st, cleaned) ==
  LET stripped == strip(cleaned)
  IN  IF /\ st.current_command = None
         /\ stripped # << >>
         /\ ~(cleaned[1] \in { " ", "TAB" })
      THEN [ st EXCEPT !.current_command = stripped, !.current_output = << >> ]
      ELSE IF /\ st.current_command # None
              /\ (stripped # st.current_command \/ st.current_output # << >>)
      THEN [ st EXCEPT !.current_output = Append(@, rstrip(cleaned)) ]
      ELSE st

\* OnOtherLine without the test of the first character of the line
OnOtherLine_IndentedToo(st, cleaned) ==
  LET stripped == strip(cleaned)
  IN  IF st.current_command = None /\ stripped # << >>
      THEN [ st EXCEPT !.current_command = stripped, !.current_output = << >> ]
      ELSE IF st.current_command # None /\ stripped # st.current_command
      THEN [ st EXCEPT !.current_output = Append(@, rstrip(cleaned)) ]
      ELSE st

\* OnOtherLine that buffers the line as it is, not right-trimmed
OnOtherLine_NoRstrip(st, cleaned) ==
  LET stripped == strip(cleaned)
  IN  IF /\ st.current_command = None
         /\ stripped # << >>
         /\ ~(cleaned[1] \in { " ", "TAB" })
      THEN [ st EXCEPT !.current_command = stripped, !.current_output = << >> ]
      ELSE IF st.current_command # None /\ stripped # st.current_command
      THEN [ st EXCEPT !.current_output = Append(@, cleaned) ]
      ELSE st

\* the branch  else:  of the loop body, on a cleaned line
OnOtherLine(st, cleaned) ==
  LET stripped == strip(cleaned)
  IN  IF /\ st.current_command = None
         /\ stripped # << >>
         /\ ~(cleaned[1] \in { " ", "TAB" })
      THEN [ st EXCEPT !.current_command = stripped, !.current_output = << >> ]
      ELSE IF st.current_command # None /\ stripped # st.current_command
      THEN [ st EXCEPT !.current_output = Append(@, rstrip(cleaned)) ]
      ELSE st

\* the code after the loop left out: an open command is never emitted
HandleFinalCommand_Skipped(st) == st

\* "Handle final command", after the loop
HandleFinalCommand(st) ==
  IF st.current_command # None
  THEN [ st EXCEPT !.commands = Append(@, CommandRecord(st)) ]
  ELSE st

\* the variables take the values of st
Becomes(st) ==
  /\ in_session' = st.in_session
  /\ current_command' = st.current_command
  /\ current_output' = st.current_output
  /\ command_id' = st.command_id
  /\ commands' = st.commands

\* the line the loop is at
AtLine == pc = "loop" /\ idx <= Len(lines)
Line == lines[idx]

\* no file at a path
Missing == << "Missing" >>

\* no tool call is looked at
NoToolCall ==
  /\ status_in = None
  /\ status_out = None

\* shaidow is not run
NoShaidow ==
  /\ shaidow_args = None
  /\ files = {}
  /\ temp_dir = None
  /\ fifo_path = None
  /\ fifo_lines = << >>
  /\ writer_open = FALSE
  /\ fifo_line = << >>
  /\ suggested_commands = << >>
  /\ prompts = << >>
  /\ console = << >>
  /\ tmux_keys = << >>

\* the converter looked at on its own: no tool call, no assistant
NoAssistant ==
  /\ NoToolCall
  /\ NoShaidow

\* the state around a call of parse_script_output that is looked at on its
\* own, from the loop on: no content is kept, clean_line is called by the
\* loop only, no file is read or written and the process has not ended
OutsideParse ==
  /\ raw_content = None
  /\ transcript = None
  /\ text_in = None
  /\ text_once = None
  /\ text_twice = None
  /\ disk_input = Missing
  /\ verbose = FALSE
  /\ fault = "none"
  /\ out_file = Missing
  /\ written = 0
  /\ stdout = << >>
  /\ stderr = << >>
  /\ exit_code = None
  /\ other_call = None
  /\ NoAssistant

Init ==
  /\ lines \in Transcripts
  /\ idx = 1
  /\ in_session = InitialState.in_session
  /\ current_command = InitialState.current_command
  /\ current_output = InitialState.current_output
  /\ command_id = InitialState.command_id
  /\ commands = InitialState.commands
  /\ pc = "loop"
  /\ OutsideParse

\* for line in lines: a start sentinel opens the session
StartSentinel ==
  /\ AtLine
  /\ script_start(Line)
  /\ in_session' = TRUE
  /\ idx' = idx + 1
  /\ UNCHANGED << lines, current_command, current_output, command_id, commands, pc >>
  /\ UNCHANGED env_vars

\* EndSentinel with continue in place of break
EndSentinel_Continues ==
  /\ AtLine
  /\ ~script_start(Line)
  /\ script_end(Line)
  /\ idx' = idx + 1
  /\ UNCHANGED << lines, in_session, current_command, current_output,
                  command_id, commands, pc >>
  /\ UNCHANGED env_vars

\* an end sentinel that leaves the loop only inside a session
EndSentinel_OnlyInSession ==
  /\ AtLine
  /\ ~script_start(Line)
  /\ script_end(Line)
  /\ IF in_session
       THEN pc' = "final" /\ UNCHANGED idx
       ELSE idx' = idx + 1 /\ UNCHANGED pc
  /\ UNCHANGED << lines, in_session, current_command, current_output,
                  command_id, commands >>
  /\ UNCHANGED env_vars

\* an end sentinel leaves the loop (break)
EndSentinel ==
  /\ AtLine
  /\ ~script_start(Line)
  /\ script_end(Line)
  /\ pc' = "final"
  /\ UNCHANGED << lines, idx, in_session, current_command, current_output,
                  command_id, commands >>
  /\ UNCHANGED env_vars

\* if not in_session: continue
SkipOutsideSession ==
  /\ AtLine
  /\ ~script_start(Line)
  /\ ~script_end(Line)
  /\ ~in_session
  /\ idx' = idx + 1
  /\ UNCHANGED << lines, in_session, current_command, current_output,
                  command_id, commands, pc >>
  /\ UNCHANGED env_vars

\* PromptLine without the test of in_session
PromptLine_IgnoresSession ==
  /\ AtLine
  /\ ~script_start(Line)
  /\ ~script_end(Line)
  /\ prompt_match(Clean(Line))
  /\ Becomes(OnPromptLine(ParserState, Clean(Line)))
  /\ idx' = idx + 1
  /\ UNCHANGED << lines, pc >>
  /\ UNCHANGED env_vars

\* a line of the session whose cleaned text matches prompt_pattern
PromptLine ==
  /\ AtLine
  /\ ~script_start(Line)
  /\ ~script_end(Line)
  /\ in_session
  /\ prompt_match(Clean(Line))
  /\ Becomes(OnPromptLine(ParserState, Clean(Line)))
  /\ idx' = idx + 1
  /\ UNCHANGED << lines, pc >>
  /\ UNCHANGED env_vars

\* a line of the session whose cleaned text does not match prompt_pattern
OtherLine ==
  /\ AtLine
  /\ ~script_start(Line)
  /\ ~script_end(Line)
  /\ in_session
  /\ ~prompt_match(Clean(Line))
  /\ Becomes(OnOtherLine(ParserState, Clean(Line)))
  /\ idx' = idx + 1
  /\ UNCHANGED << lines, pc >>
  /\ UNCHANGED env_vars

\* the loop has consumed every line
EndOfInput ==
  /\ pc = "loop"
  /\ idx > Len(lines)
  /\ pc' = "final"
  /\ UNCHANGED << lines, idx, in_session, current_command, current_output,
                  command_id, commands >>
  /\ UNCHANGED env_vars

\* the code after the loop, and the return
FinalCommand ==
  /\ pc = "final"
  /\ Becomes(HandleFinalCommand(ParserState))
  /\ pc' = "done"
  /\ UNCHANGED << lines, idx >>
  /\ UNCHANGED env_vars

Next ==
  \/ StartSentinel
  \/ EndSentinel
  \/ SkipOutsideSession
  \/ PromptLine
  \/ OtherLine
  \/ EndOfInput
  \/ FinalCommand

Spec == Init /\ [][Next]_vars

\* The parse of a transcript that begins with the start sentinel: no line is
\* outside the session.
InitSession ==
  /\ lines \in SessionTranscripts
  /\ idx = 1
  /\ in_session = InitialState.in_session
  /\ current_command = InitialState.current_command
  /\ current_output = InitialState.current_output
  /\ command_id = InitialState.command_id
  /\ commands = InitialState.commands
  /\ pc = "loop"
  /\ OutsideParse

NextSession ==
  \/ StartSentinel
  \/ EndSentinel
  \/ PromptLine
  \/ OtherLine
  \/ EndOfInput
  \/ FinalCommand

SpecSession == InitSession /\ [][NextSession]_vars

\* The parse of a session made of prompt lines and of lines that begin with
\* a terminator.
InitPrompt ==
  /\ lines \in PromptTranscripts
  /\ idx = 1
  /\ in_session = InitialState.in_session
  /\ current_command = InitialState.current_command
  /\ current_output = InitialState.current_output
  /\ command_id = InitialState.command_id
  /\ commands = InitialState.commands
  /\ pc = "loop"
  /\ OutsideParse

SpecPrompt == InitPrompt /\ [][NextSession]_vars

\* the sessions of the pool and the sessions of the scenario
InitScenario ==
  /\ lines \in SessionTranscripts \cup ScenarioTranscripts
  /\ idx = 1
  /\ in_session = InitialState.in_session
  /\ current_command = InitialState.current_command
  /\ current_output = InitialState.current_output
  /\ command_id = InitialState.command_id
  /\ commands = InitialState.commands
  /\ pc = "loop"
  /\ OutsideParse

SpecScenario == InitScenario /\ [][NextSession]_vars

\* ------------------------------------------------------------------------
\* parse_script_output from its argument on: a transcript written with one
\* of the three line endings
\* ------------------------------------------------------------------------

\* the number of lines of such a transcript
MaxContentLines == 3

\* "\n", "\r\n" and the lone "\r"
LineEndings == { << "LF" >>, << "CR", "LF" >>, << "CR" >> }

\* the text of the lines ls with eol between them
WrittenWith(ls, eol) ==
  Concat([ k \in 1..(2 * Len(ls) - 1) |->
             IF k % 2 = 1 THEN ls[(k + 1) \div 2] ELSE eol ],
         1, 2 * Len(ls) - 1)

ContentTranscripts == UNION { [1..n -> LinePool] : n \in 1..MaxContentLines }

InitNormalize ==
  /\ transcript \in ContentTranscripts
  /\ \E eol \in LineEndings : raw_content = WrittenWith(transcript, eol)
  /\ lines = << >>
  /\ idx = 1
  /\ in_session = InitialState.in_session
  /\ current_command = InitialState.current_command
  /\ current_output = InitialState.current_output
  /\ command_id = InitialState.command_id
  /\ commands = InitialState.commands
  /\ pc = "parse"
  /\ text_in = None
  /\ text_once = None
  /\ text_twice = None
  /\ disk_input = Missing
  /\ verbose = FALSE
  /\ fault = "none"
  /\ out_file = Missing
  /\ written = 0
  /\ stdout = << >>
  /\ stderr = << >>
  /\ exit_code = None
  /\ other_call = None
  /\ NoAssistant

\* the code of parse_script_output before the loop: the content normalized
\* and split, the local variables set
Normalize ==
  /\ pc = "parse"
  /\ lines' = split(normalize_content(raw_content))
  /\ idx' = 1
  /\ Becomes(InitialState)
  /\ pc' = "loop"
  /\ UNCHANGED env_vars

NextNormalize ==
  \/ Normalize
  \/ StartSentinel
  \/ EndSentinel
  \/ SkipOutsideSession
  \/ PromptLine
  \/ OtherLine
  \/ EndOfInput
  \/ FinalCommand

SpecNormalize == InitNormalize /\ [][NextNormalize]_vars

\* ------------------------------------------------------------------------
\* clean_line on one line, and on its own result
\* ------------------------------------------------------------------------

\* the number of pieces a line is made of
MaxPieces == 3

\* the pieces of the lines: the escape character, a title text with its
\* bell, one with a tab in it, two colour sequences, a word, the two halves
\* of the bracketed paste text, shift out, a tab, a word with a capital, and
\* the control character DEL
PiecePool ==
  { << "ESC" >>,
    << "]", "0", ";", "t", "BEL" >>,
    << "]", "0", ";", "TAB", "BEL" >>,
    << "ESC", "[", "3", "1", "m" >>,
    << "ESC", "[", "0", "m" >>,
    << "e", "r", "r", "o", "r" >>,
    << "?", "2", "0" >>,
    << "0", "4", "h" >>,
    << "SO" >>,
    << "TAB" >>,
    << "H", "i" >>,
    << "DEL" >> }

\* the lines of at most MaxPieces pieces
RawLines ==
  { Concat(p, 1, Len(p)) : p \in UNION { [1..n -> PiecePool] : n \in 0..MaxPieces } }

InitClean ==
  /\ text_in \in RawLines
  /\ text_once = None
  /\ text_twice = None
  /\ pc = "clean"
  /\ lines = << >>
  /\ idx = 1
  /\ in_session = InitialState.in_session
  /\ current_command = InitialState.current_command
  /\ current_output = InitialState.current_output
  /\ command_id = InitialState.command_id
  /\ commands = InitialState.commands
  /\ raw_content = None
  /\ transcript = None
  /\ disk_input = Missing
  /\ verbose = FALSE
  /\ fault = "none"
  /\ out_file = Missing
  /\ written = 0
  /\ stdout = << >>
  /\ stderr = << >>
  /\ exit_code = None
  /\ other_call = None
  /\ NoAssistant

\* cleaned = self.clean_line(line)
CleanLine ==
  /\ pc = "clean"
  /\ text_once' = clean_line(text_in)
  /\ pc' = "clean again"
  /\ UNCHANGED << aside_vars, parse_vars, raw_content, transcript, text_in, text_twice, tool_vars >>

\* clean_line called with its own result
CleanLineAgain ==
  /\ pc = "clean again"
  /\ text_twice' = clean_line(text_once)
  /\ pc' = "cleaned"
  /\ UNCHANGED << aside_vars, parse_vars, raw_content, transcript, text_in, text_once, tool_vars >>

NextClean ==
  \/ CleanLine
  \/ CleanLineAgain

SpecClean == InitClean /\ [][NextClean]_vars

\* ------------------------------------------------------------------------
\* json.dumps(cmd, ensure_ascii=False) on a record
\* ------------------------------------------------------------------------

\* the digits of '{0:04x}'
HexDigits ==
  << "0", "1", "2", "3", "4", "5", "6", "7", "8", "9", "a", "b", "c", "d", "e", "f" >>

\* the escape of one character that leaves the line feed as it is
json_escape_NoNewline(c) ==
  CASE c = "\\"  -> << "\\", "\\" >>
    [] c = "\""  -> << "\\", "\"" >>
    [] c = "BS"  -> << "\\", "b" >>
    [] c = "FF"  -> << "\\", "f" >>
    [] c = "CR"  -> << "\\", "r" >>
    [] c = "TAB" -> << "\\", "t" >>
    [] OTHER     -> << c >>

\* the text json.dumps writes for one character of a string: the backslash,
\* the quote and the characters below 0x20 are escaped, every other
\* character (DEL too) is written as it is
json_escape(c) ==
  CASE c = "\\"  -> << "\\", "\\" >>
    [] c = "\""  -> << "\\", "\"" >>
    [] c = "BS"  -> << "\\", "b" >>
    [] c = "FF"  -> << "\\", "f" >>
    [] c = "LF"  -> << "\\", "n" >>
    [] c = "CR"  -> << "\\", "r" >>
    [] c = "TAB" -> << "\\", "t" >>
    [] OTHER     -> IF InRange(c, "NUL", "US")
                    THEN << "\\", "u", "0", "0",
                            HexDigits[(Ord[c] \div 16) + 1],
                            HexDigits[(Ord[c] % 16) + 1] >>
                    ELSE << c >>

\* the text json.dumps writes for a string
json_string(s) ==
  << "\"" >> \o Concat([ i \in 1..Len(s) |-> json_escape(s[i]) ], 1, Len(s))
             \o << "\"" >>

\* the keys of the dict of a record, in the order of the dict literal, each
\* with the separators that json.dumps writes before and after it
KEY_ID == << "{", "\"", "i", "d", "\"", ":", " " >>
KEY_COMMAND ==
  << ",", " ", "\"", "c", "o", "m", "m", "a", "n", "d", "\"", ":", " " >>
KEY_OUTPUT ==
  << ",", " ", "\"", "o", "u", "t", "p", "u", "t", "\"", ":", " " >>

\* json.dumps(cmd, ensure_ascii=False)
json_dumps(cmd) ==
  KEY_ID \o json_string(cmd.id)
    \o KEY_COMMAND \o json_string(cmd.command)
    \o KEY_OUTPUT \o json_string(cmd.output)
    \o << "}" >>





\* ------------------------------------------------------------------------
\* parse_script_output as a function of its argument
\* ------------------------------------------------------------------------

\* one pass of the loop body that does not end in break
LoopBody(st, line) ==
  IF script_start(line) THEN [ st EXCEPT !.in_session = TRUE ]
  ELSE IF ~st.in_session THEN st
  ELSE IF prompt_match(Clean(line)) THEN OnPromptLine(st, Clean(line))
  ELSE OnOtherLine(st, Clean(line))

\* the for loop from line i of ls on
RECURSIVE RunLoop(_, _, _)
RunLoop(st, ls, i) ==
  IF i > Len(ls) THEN st
  ELSE IF ~script_start(ls[i]) /\ script_end(ls[i]) THEN st
  ELSE RunLoop(LoopBody(st, ls[i]), ls, i + 1)

\* the records returned when content.split('\n') is ls
parse_lines(ls) == HandleFinalCommand(RunLoop(InitialState, ls, 1)).commands

\* the records returned for a content
parse_script_output(content) == parse_lines(split(normalize_content(content)))

\* ------------------------------------------------------------------------
\* Properties
\* ------------------------------------------------------------------------

\* the loop is at a line of the session that is no sentinel
AtSessionLine ==
  /\ AtLine
  /\ ~script_start(Line)
  /\ ~script_end(Line)
  /\ in_session

\* the loop is at a prompt line / at a line that is no prompt line
AtPromptLine == AtSessionLine /\ prompt_match(Clean(Line))
AtOtherLine  == AtSessionLine /\ ~prompt_match(Clean(Line))

\* the position of the first end sentinel of ls (0: there is none)
FirstEnd(ls) ==
  IF \A i \in 1..Len(ls) : ~script_end(ls[i]) THEN 0
  ELSE CHOOSE i \in 1..Len(ls) :
         script_end(ls[i]) /\ \A j \in 1..(i - 1) : ~script_end(ls[j])

\* C1: the k-th record emitted has the decimal string of k as its id: ids
\* start at "1", grow by one per record, and depend on nothing in the input.
C1_IdsSequential ==
  \A k \in 1..Len(commands) : commands[k].id = str(k)

\* three records have been returned
C1_Witness ==
  /\ pc = "done"
  /\ Len(commands) = 3
  /\ commands[3].id = << "3" >>

\* C2: as long as no start sentinel has been seen nothing of the segmenter
\* state has changed, and a transcript without a start sentinel returns no
\* record.
C2_NothingBeforeStart ==
  /\ ~in_session =>
       /\ current_command = None
       /\ current_output = << >>
       /\ command_id = 1
       /\ commands = << >>
  /\ (pc = "done" /\ \A i \in 1..Len(lines) : ~script_start(lines[i]))
       => commands = << >>

\* a transcript of prompts and commands but no start sentinel has been
\* read to its end
C2_Witness ==
  /\ pc = "done"
  /\ ~in_session
  /\ idx > Len(lines)
  /\ \E i \in 1..Len(lines) : prompt_match(Clean(lines[i]))
  /\ \E i \in 1..Len(lines) : ~prompt_match(Clean(lines[i])) /\ lines[i] # << >>

\* C3: the loop never goes past the first end sentinel, and the records
\* returned are those of the transcript cut after its first end sentinel.
C3_EndSentinelHalts ==
  LET e == FirstEnd(lines)
  IN  e > 0 =>
        /\ idx <= e
        /\ pc = "done" => commands = parse_lines(SubSeq(lines, 1, e))

\* a session with a command was ended by an end sentinel that a prompt line
\* with a command follows
C3_Witness ==
  /\ pc = "done"
  /\ in_session
  /\ Len(commands) = 1
  /\ FirstEnd(lines) > 0
  /\ FirstEnd(lines) < Len(lines)
  /\ prompt_match(Clean(lines[FirstEnd(lines) + 1]))

\* C4: the step after the loop emits exactly one record when a command is
\* open, with the next id in sequence and the buffered output, and none when
\* no command is open; after an end sentinel and at the end of the input alike.
C4_Finalization ==
  [][ pc = "final" =>
        IF current_command # None
        THEN commands' = Append(commands,
                                [ id      |-> str(Len(commands) + 1),
                                  command |-> current_command,
                                  output  |-> strip(join(current_output)) ])
        ELSE commands' = commands ]_vars

\* an end sentinel was met with a command open that had output, after an
\* earlier record; the final record is the second
C4_Witness ==
  /\ pc = "done"
  /\ idx <= Len(lines)
  /\ script_end(lines[idx])
  /\ current_command # None
  /\ current_output # << >>
  /\ Len(commands) = 2

\* the cleaned text of the line the loop is at, and of the line before it
Cleaned == Clean(Line)
PrevCleaned == Clean(lines[idx - 1])

\* the trimmed text a prompt line carries after its prompt
Trailing(cleaned) == strip(prompt_group2(cleaned))

\* the loop has just handled a prompt line / a line that is no prompt line
AfterPromptLine ==
  /\ pc = "loop"
  /\ in_session
  /\ idx >= 3
  /\ ~script_start(lines[idx - 1])
  /\ prompt_match(PrevCleaned)
AfterOtherLine ==
  /\ pc = "loop"
  /\ in_session
  /\ idx >= 3
  /\ ~script_start(lines[idx - 1])
  /\ ~prompt_match(PrevCleaned)

\* C5: a prompt line met while a command is open emits that command once,
\* with its buffered output, whether or not the prompt carries text; then the
\* buffer is empty and the open command is the trimmed trailing text, or none
\* when that text is empty.
C5_PromptWhileActive ==
  [][ (AtPromptLine /\ current_command # None) =>
        /\ commands' = Append(commands,
                              [ id      |-> str(command_id),
                                command |-> current_command,
                                output  |-> strip(join(current_output)) ])
        /\ current_output' = << >>
        /\ current_command' =
             IF Trailing(Cleaned) # << >> THEN Trailing(Cleaned) ELSE None ]_vars

\* a prompt with a command has just closed a command that had output
C5_Witness ==
  /\ AfterPromptLine
  /\ current_command = Trailing(PrevCleaned)
  /\ current_command # None
  /\ current_output = << >>
  /\ Len(commands) = 1
  /\ commands[1].output # << >>

\* the loop is at a bare prompt while a command with buffered output is open
AtBarePromptWithOutput ==
  /\ AtPromptLine
  /\ Trailing(Cleaned) = << >>
  /\ current_command # None
  /\ current_output # << >>

\* C6 as stated: a bare prompt met while a command with buffered output is
\* open discards the buffer and emits no record.
C6_BarePromptDiscards ==
  [][ AtBarePromptWithOutput =>
        /\ commands' = commands
        /\ current_output' = << >> ]_vars

\* C6, amended: a bare prompt met while a command with buffered output is
\* open emits one record for that command, which carries the buffered output;
\* only then is the buffer emptied and the command closed.
C6_BarePromptEmits ==
  [][ AtBarePromptWithOutput =>
        /\ Len(commands') = Len(commands) + 1
        /\ SubSeq(commands', 1, Len(commands)) = commands
        /\ commands'[Len(commands')].command = current_command
        /\ commands'[Len(commands')].output = strip(join(current_output))
        /\ current_output' = << >>
        /\ current_command' = None ]_vars

\* a bare prompt has just closed a command that had output
C6_Witness ==
  /\ AfterPromptLine
  /\ Trailing(PrevCleaned) = << >>
  /\ current_command = None
  /\ current_output = << >>
  /\ commands # << >>
  /\ commands[Len(commands)].output # << >>

\* the terminator characters of a line, wherever they are
AllTerminators(s) == { i \in 1..Len(s) : IsTerminator(s[i]) }
LastTerminator(s) ==
  CHOOSE i \in AllTerminators(s) : \A j \in AllTerminators(s) : i >= j
\* the first terminator that has a character before it
FirstPrefixedTerminator(s) ==
  CHOOSE i \in 2..Len(s) :
    IsTerminator(s[i]) /\ \A j \in 2..(i - 1) : ~IsTerminator(s[j])

\* the command a prompt line opens when the terminator at position t is used
CommandAfter(s, t) ==
  IF strip(Tail_(s, t + 1)) # << >> THEN strip(Tail_(s, t + 1)) ELSE None

\* C7 as stated: on a prompt line with several terminator characters the
\* command is what follows the last of them.
C7_LastTerminator ==
  [][ (AtPromptLine /\ Cardinality(AllTerminators(Cleaned)) >= 2) =>
        current_command' = CommandAfter(Cleaned, LastTerminator(Cleaned)) ]_vars

\* C7, amended: on a prompt line with several terminator characters the
\* command is what follows the first terminator that has at least one
\* character before it.
C7_FirstTerminator ==
  [][ (AtPromptLine /\ Cardinality(AllTerminators(Cleaned)) >= 2) =>
        current_command' = CommandAfter(Cleaned, FirstPrefixedTerminator(Cleaned)) ]_vars

\* the line a#b$ ls has just opened the command b$ ls
C7_Witness ==
  /\ AfterPromptLine
  /\ PrevCleaned = << "a", "#", "b", "$", " ", "l", "s" >>
  /\ current_command = << "b", "$", " ", "l", "s" >>

\* C8: no line of a record's output, and no buffered line of the open
\* command, has the command text as its trimmed content.
C8_EchoSuppressed ==
  /\ \A k \in 1..Len(commands) :
       \A j \in 1..Len(split(commands[k].output)) :
         strip(split(commands[k].output)[j]) # commands[k].command
  /\ \A j \in 1..Len(current_output) :
       strip(current_output[j]) # current_command

\* the echo of the command came as the second line after it, behind a line
\* of output, and the record holds the output only
C8_Witness ==
  /\ pc = "done"
  /\ Len(lines) = 4
  /\ prompt_match(Clean(lines[2]))
  /\ strip(Clean(lines[3])) = << "a" >>
  /\ strip(Clean(lines[4])) = Trailing(Clean(lines[2]))
  /\ Len(commands) = 1
  /\ commands[1].command = Trailing(Clean(lines[2]))
  /\ commands[1].output = << "a" >>

\* C9: a line that is no prompt line, met while no command is open, opens an
\* implicit command (its trimmed text, an empty buffer, no record) exactly
\* when it is not blank and does not begin with a space or a tab; any other
\* such line changes nothing of the segmenter state.
C9_ImplicitCommand ==
  [][ (AtOtherLine /\ current_command = None) =>
        IF strip(Cleaned) # << >> /\ Cleaned[1] # " " /\ Cleaned[1] # "TAB"
        THEN /\ current_command' = strip(Cleaned)
             /\ current_output' = << >>
             /\ UNCHANGED << command_id, commands >>
        ELSE UNCHANGED << current_command, current_output, command_id, commands >> ]_vars

\* a line that is no prompt line has just opened an implicit command,
\* after a line indented by a space and one indented by a tab were dropped
C9_Witness ==
  /\ AfterOtherLine
  /\ idx >= 5
  /\ lines[idx - 3] = << " ", "a" >>
  /\ lines[idx - 2] = << "TAB", "b" >>
  /\ current_command = strip(PrevCleaned)
  /\ current_output = << >>
  /\ commands = << >>

\* the position of the first start sentinel of ls (0: there is none)
FirstStart(ls) ==
  IF \A i \in 1..Len(ls) : ~script_start(ls[i]) THEN 0
  ELSE CHOOSE i \in 1..Len(ls) :
         script_start(ls[i]) /\ \A j \in 1..(i - 1) : ~script_start(ls[j])

\* the kinds of line of a session
IsSentinel(l) == script_start(l) \/ script_end(l)
IsPrompt(l) == ~IsSentinel(l) /\ prompt_match(Clean(l))
IsPromptWithText(l) == IsPrompt(l) /\ Trailing(Clean(l)) # << >>
IsBarePrompt(l) == IsPrompt(l) /\ Trailing(Clean(l)) = << >>
IsCommandLike(l) ==
  /\ ~IsSentinel(l)
  /\ ~prompt_match(Clean(l))
  /\ strip(Clean(l)) # << >>
  /\ Clean(l)[1] # " "
  /\ Clean(l)[1] # "TAB"

\* the transcript has a start sentinel and, after it, its first end sentinel
HasSentinelPair == FirstStart(lines) > 0 /\ FirstEnd(lines) > FirstStart(lines)
\* the positions strictly inside the pair
Inside == (FirstStart(lines) + 1)..(FirstEnd(lines) - 1)
\* the number N of prompt lines with trailing text inside the pair
PromptsWithText == Cardinality({ i \in Inside : IsPromptWithText(lines[i]) })
\* the last line before the end sentinel is a bare prompt
EndsOnBarePrompt ==
  /\ FirstEnd(lines) - 1 > FirstStart(lines)
  /\ IsBarePrompt(lines[FirstEnd(lines) - 1])
\* every command-like line inside the pair comes while a command from a
\* prompt line is open: the nearest prompt line before it carries text
NoImplicitCommand ==
  \A i \in Inside :
    IsCommandLike(lines[i]) =>
      \E j \in Inside :
        /\ j < i
        /\ IsPromptWithText(lines[j])
        /\ \A k \in (j + 1)..(i - 1) : ~IsPrompt(lines[k])

\* C10 as stated: a transcript with N prompt lines with trailing text inside
\* a sentinel pair, whose session ends on a bare prompt, returns N records.
C10_RecordsEqualPrompts ==
  (pc = "done" /\ HasSentinelPair /\ EndsOnBarePrompt)
    => Len(commands) = PromptsWithText

\* C10, amended: such a transcript returns N records when no line of the
\* session opens an implicit command.
C10_RecordsEqualPromptsNoImplicit ==
  (pc = "done" /\ HasSentinelPair /\ EndsOnBarePrompt /\ NoImplicitCommand)
    => Len(commands) = PromptsWithText

\* two prompts with commands, a bare prompt and the end sentinel gave two
\* records
C10_Witness ==
  /\ pc = "done"
  /\ HasSentinelPair
  /\ EndsOnBarePrompt
  /\ NoImplicitCommand
  /\ PromptsWithText = 2
  /\ Len(commands) = 2

\* ------------------------------------------------------------------------
\* main and script_to_jsonl: one run of the command line
\* ------------------------------------------------------------------------

\* the number of lines behind the start sentinel in the input file
MaxToolLines == 4

\* args.input_file and args.output_file
input_file == "typescript"
output_file == "output.jsonl"

\* the texts of the input file: a start sentinel and at most MaxToolLines
\* lines, written with "\n"
ToolContents ==
  { join(<< StartLine >> \o t) :
      t \in UNION { [1..n -> ToolPool] : n \in 0..MaxToolLines } }

\* the text of an output file left by an earlier run
OldOutput == << "o", "l", "d", "LF" >>

\* the operations that can raise: none; open or read of the input (not
\* FileNotFoundError); open of the output, with FileNotFoundError for a
\* missing directory or with another error; f.write; print to sys.stdout
Faults ==
  { "none", "read", "open output missing", "open output", "write", "print" }

\* the number of commands shown and the width of the output shown
PreviewCount == 3
PreviewWidth == 50

InitTool ==
  /\ disk_input \in { Missing } \cup ToolContents
  /\ out_file \in { Missing, OldOutput }
  /\ verbose \in BOOLEAN
  /\ fault \in Faults
  /\ written = 0
  /\ stdout = << >>
  /\ stderr = << >>
  /\ exit_code = None
  /\ other_call = None
  /\ NoAssistant
  /\ pc = "main"
  /\ raw_content = None
  /\ transcript = None
  /\ lines = << >>
  /\ idx = 1
  /\ in_session = InitialState.in_session
  /\ current_command = InitialState.current_command
  /\ current_output = InitialState.current_output
  /\ command_id = InitialState.command_id
  /\ commands = InitialState.commands
  /\ text_in = None
  /\ text_once = None
  /\ text_twice = None

\* main after parse_args: the message of --verbose, then the call of
\* script_to_jsonl; a print that raises here is caught by nobody, the
\* interpreter writes the traceback and ends with status 1
Main ==
  /\ pc = "main"
  /\ IF verbose /\ fault = "print"
     THEN /\ stderr' = Append(stderr, << "Traceback (most recent call last):", fault >>)
          /\ exit_code' = 1
          /\ pc' = "exited"
          /\ UNCHANGED stdout
     ELSE /\ stdout' = IF verbose
                       THEN Append(stdout, << "Converting {} to {}", input_file, output_file >>)
                       ELSE stdout
          /\ pc' = "open input"
          /\ UNCHANGED << stderr, exit_code >>
  /\ UNCHANGED << aside_vars, parse_vars, raw_content, transcript, clean_vars,
                  disk_input, verbose, fault, out_file, written >>

\* a ReadInput that opens the output file before it opens the input
ReadInput_OutputOpenedFirst ==
  /\ pc = "open input"
  /\ out_file' = << >>
  /\ IF disk_input = Missing
     THEN pc' = "except FileNotFoundError" /\ UNCHANGED raw_content
     ELSE IF fault = "read"
     THEN pc' = "except Exception" /\ UNCHANGED raw_content
     ELSE pc' = "parse" /\ raw_content' = disk_input
  /\ UNCHANGED << aside_vars, parse_vars, transcript, clean_vars, disk_input, verbose,
                  fault, written, stdout, stderr, exit_code >>

\* with open(input_file, ...) as f: content = f.read()
ReadInput ==
  /\ pc = "open input"
  /\ IF disk_input = Missing
     THEN pc' = "except FileNotFoundError" /\ UNCHANGED raw_content
     ELSE IF fault = "read"
     THEN pc' = "except Exception" /\ UNCHANGED raw_content
     ELSE pc' = "parse" /\ raw_content' = disk_input
  /\ UNCHANGED << aside_vars, parse_vars, transcript, clean_vars, tool_vars >>

\* with open(output_file, 'w', ...) as f: the file is made, or made empty
OpenOutput ==
  /\ pc = "done"
  /\ IF fault = "open output missing"
     THEN pc' = "except FileNotFoundError" /\ UNCHANGED << out_file, written >>
     ELSE IF fault = "open output"
     THEN pc' = "except Exception" /\ UNCHANGED << out_file, written >>
     ELSE pc' = "write" /\ out_file' = << >> /\ written' = 0
  /\ UNCHANGED << aside_vars, parse_vars, raw_content, transcript, clean_vars,
                  disk_input, verbose, fault, stdout, stderr, exit_code >>

\* for cmd in commands: f.write(json.dumps(cmd, ensure_ascii=False) + '\n');
\* a write that raises is the write of any of the records
WriteRecord ==
  /\ pc = "write"
  /\ written < Len(commands)
  /\ \/ /\ fault = "write"
        /\ pc' = "except Exception"
        /\ UNCHANGED << out_file, written >>
     \/ /\ fault # "write" \/ written + 1 < Len(commands)
        /\ out_file' = out_file \o json_dumps(commands[written + 1]) \o << "LF" >>
        /\ written' = written + 1
        /\ UNCHANGED pc
  /\ UNCHANGED << aside_vars, parse_vars, raw_content, transcript, clean_vars,
                  disk_input, verbose, fault, stdout, stderr, exit_code >>

\* the end of the for loop and of the with block
CloseOutput ==
  /\ pc = "write"
  /\ written = Len(commands)
  /\ pc' = "report"
  /\ UNCHANGED << aside_vars, parse_vars, raw_content, transcript, clean_vars, tool_vars >>

\* the line printed for one of the first commands
PreviewLine(cmd) ==
  << "  {}: {} -> {}{}", cmd.id, cmd.command,
     SubSeq(cmd.output, 1, IF Len(cmd.output) > PreviewWidth
                           THEN PreviewWidth ELSE Len(cmd.output)),
     IF Len(cmd.output) > PreviewWidth THEN "..." ELSE "" >>

\* the lines printed after the output file is written
ReportLines ==
  << << "Successfully converted {} commands from {} to {}",
        Len(commands), input_file, output_file >> >>
  \o (IF commands # << >>
      THEN << << "\nFirst few commands:" >> >>
           \o [ k \in 1..(IF Len(commands) > PreviewCount
                          THEN PreviewCount ELSE Len(commands)) |->
                  PreviewLine(commands[k]) ]
      ELSE << >>)

\* the prints of the summary and of the first few commands
Report ==
  /\ pc = "report"
  /\ IF fault = "print"
     THEN pc' = "except Exception" /\ UNCHANGED stdout
     ELSE pc' = "return" /\ stdout' = stdout \o ReportLines
  /\ UNCHANGED << aside_vars, parse_vars, raw_content, transcript, clean_vars,
                  disk_input, verbose, fault, out_file, written, stderr, exit_code >>

\* except FileNotFoundError: the message and sys.exit(1)
ExceptFileNotFound ==
  /\ pc = "except FileNotFoundError"
  /\ stderr' = Append(stderr, << "Error: Input file '{}' not found.", input_file >>)
  /\ exit_code' = 1
  /\ pc' = "exited"
  /\ UNCHANGED << aside_vars, parse_vars, raw_content, transcript, clean_vars,
                  disk_input, verbose, fault, out_file, written, stdout >>

\* ExceptException without sys.exit(1): the run goes on to its end
ExceptException_NoExit ==
  /\ pc = "except Exception"
  /\ stderr' = Append(stderr, << "Error processing file: {}", fault >>)
  /\ pc' = "return"
  /\ UNCHANGED << aside_vars, parse_vars, raw_content, transcript, clean_vars,
                  disk_input, verbose, fault, out_file, written, stdout, exit_code >>

\* except Exception as e: the message and sys.exit(1)
ExceptException ==
  /\ pc = "except Exception"
  /\ stderr' = Append(stderr, << "Error processing file: {}", fault >>)
  /\ exit_code' = 1
  /\ pc' = "exited"
  /\ UNCHANGED << aside_vars, parse_vars, raw_content, transcript, clean_vars,
                  disk_input, verbose, fault, out_file, written, stdout >>

\* script_to_jsonl and main return: the process ends with status 0
Return ==
  /\ pc = "return"
  /\ exit_code' = 0
  /\ pc' = "exited"
  /\ UNCHANGED << aside_vars, parse_vars, raw_content, transcript, clean_vars,
                  disk_input, verbose, fault, out_file, written, stdout, stderr >>

NextTool ==
  \/ Main
  \/ ReadInput
  \/ Normalize
  \/ StartSentinel
  \/ EndSentinel
  \/ PromptLine
  \/ OtherLine
  \/ EndOfInput
  \/ FinalCommand
  \/ OpenOutput
  \/ WriteRecord
  \/ CloseOutput
  \/ Report
  \/ ExceptFileNotFound
  \/ ExceptException
  \/ Return

SpecTool == InitTool /\ [][NextTool]_vars

\* ------------------------------------------------------------------------
\* Two calls of parse_script_output on one ScriptParser, their passes of
\* the loop interleaved
\* ------------------------------------------------------------------------

\* the number of lines behind the start sentinel in each transcript
MaxCallLines == 2

\* the lines of the two transcripts
CallPool ==
  { EndLine,
    << "u", "$", " ", "l", "s" >>,
    << " ", "a" >> }

CallTranscripts ==
  { << StartLine >> \o t : t \in UNION { [1..n -> CallPool] : n \in 0..MaxCallLines } }

InitTwoCalls ==
  /\ lines \in CallTranscripts
  /\ idx = 1
  /\ in_session = InitialState.in_session
  /\ current_command = InitialState.current_command
  /\ current_output = InitialState.current_output
  /\ command_id = InitialState.command_id
  /\ commands = InitialState.commands
  /\ pc = "loop"
  /\ \E ls \in CallTranscripts :
       other_call = [ pc |-> "idle", lines |-> ls, idx |-> 1, st |-> InitialState ]
  /\ raw_content = None
  /\ transcript = None
  /\ text_in = None
  /\ text_once = None
  /\ text_twice = None
  /\ disk_input = Missing
  /\ verbose = FALSE
  /\ fault = "none"
  /\ out_file = Missing
  /\ written = 0
  /\ stdout = << >>
  /\ stderr = << >>
  /\ exit_code = None
  /\ NoAssistant

\* what a step of the second call leaves alone
first_call_vars ==
  << parse_vars, pc, raw_content, transcript, clean_vars, tool_vars, status_vars,
     shaidow_vars >>

\* CallOther with the record counter kept on the ScriptParser: the second
\* call goes on from the counter of the first
CallOther_SharesCounter ==
  /\ other_call.pc = "idle"
  /\ other_call' = [ other_call EXCEPT
                       !.pc = "loop",
                       !.idx = 1,
                       !.st = [ InitialState EXCEPT !.command_id = command_id ] ]
  /\ UNCHANGED first_call_vars

\* the second call begins: its local variables are set
CallOther ==
  /\ other_call.pc = "idle"
  /\ other_call' = [ other_call EXCEPT
                       !.pc = "loop",
                       !.idx = 1,
                       !.st = InitialState ]
  /\ UNCHANGED first_call_vars

\* one pass of the loop of the second call
StepOther ==
  /\ other_call.pc = "loop"
  /\ other_call.idx <= Len(other_call.lines)
  /\ LET l == other_call.lines[other_call.idx]
     IN  other_call' =
           IF ~script_start(l) /\ script_end(l)
           THEN [ other_call EXCEPT !.pc = "final" ]
           ELSE [ other_call EXCEPT !.st = LoopBody(@, l), !.idx = @ + 1 ]
  /\ UNCHANGED first_call_vars

\* the loop of the second call has consumed every line
EndOfInputOther ==
  /\ other_call.pc = "loop"
  /\ other_call.idx > Len(other_call.lines)
  /\ other_call' = [ other_call EXCEPT !.pc = "final" ]
  /\ UNCHANGED first_call_vars

\* the code after the loop of the second call, and its return
ReturnOther ==
  /\ other_call.pc = "final"
  /\ other_call' = [ other_call EXCEPT !.st = HandleFinalCommand(@), !.pc = "done" ]
  /\ UNCHANGED first_call_vars

NextTwoCalls ==
  \/ StartSentinel
  \/ EndSentinel
  \/ PromptLine
  \/ OtherLine
  \/ EndOfInput
  \/ FinalCommand
  \/ CallOther
  \/ StepOther
  \/ EndOfInputOther
  \/ ReturnOther

SpecTwoCalls == InitTwoCalls /\ [][NextTwoCalls]_vars

\* ------------------------------------------------------------------------
\* tools: the status texts of a tool call (src/tools/__init__.py)
\* ------------------------------------------------------------------------

\* json.loads of the standard library, as far as after_call_status_message
\* looks at its result: whether it raised and what, and whether the value is
\* a list and of which length.  A text is scanned character by character as
\* json.scanner and json.decoder scan it.

\* sys.int_max_str_digits of CPython 3.11 and later: int() of a longer run
\* of digits raises ValueError
int_max_str_digits == 4300

JSON_WHITESPACE == { " ", "TAB", "LF", "CR" }

Digits == { "0", "1", "2", "3", "4", "5", "6", "7", "8", "9" }

HexChars == Digits \cup { "a", "b", "c", "d", "e", "f", "A", "B", "C", "D", "E", "F" }

\* BACKSLASH of json.decoder: the characters that may follow a backslash
BACKSLASH == { "\"", "\\", "/", "b", "f", "n", "r", "t" }

\* the values of Python the decoder gives: None, a bool, a number (shown by
\* its text), a str, a list and a dict with str keys
PyNone == [none |-> TRUE]

PyBool(b) == [bool |-> b]

PyNumber(text) == [num |-> text]

PyStr(text) == [str |-> text]

PyList(items) == [list |-> items]

PyDict(items) == [dict |-> items]

\* the value val scanned up to position end (exclusive)
Scanned(end, val) ==
  [raised |-> "", end |-> end, val |-> val,
   is_list |-> "list" \in DOMAIN val,
   len |-> IF "list" \in DOMAIN val THEN Len(val.list) ELSE 0]

\* an exception leaving the decoder
Raises(e) == [raised |-> e, end |-> 0, val |-> PyNone, is_list |-> FALSE, len |-> 0]

\* s[i:i+1] with a 1-based i: the character at i, "" beyond the text
CharAt(s, i) == IF i \in 1..Len(s) THEN s[i] ELSE ""

\* the end of the run of characters of cs that starts at position i of s
\* (WHITESPACE.match(s, i).end(), the \d* of NUMBER_RE)
After(s, i, cs) ==
  LET stop == { j \in i..Len(s) : s[j] \notin cs }
  IN  IF stop = {} THEN IF i > Len(s) THEN i ELSE Len(s) + 1
      ELSE CHOOSE j \in stop : \A k \in stop : j <= k

\* scanstring(s, i, strict=True): the position after the closing quote of
\* the string whose first character is at i, 0 when it raises JSONDecodeError
RECURSIVE scanstring(_, _)
scanstring(s, i) ==
  IF i > Len(s) THEN 0
  ELSE IF s[i] = "\"" THEN i + 1
  ELSE IF s[i] = "\\" THEN
    IF CharAt(s, i + 1) \in BACKSLASH THEN scanstring(s, i + 2)
    ELSE IF /\ CharAt(s, i + 1) = "u"
            /\ i + 5 <= Len(s)
            /\ \A k \in 2..5 : s[i + k] \in HexChars
      THEN scanstring(s, i + 6)
    ELSE 0
  ELSE IF Ord[s[i]] < 32 THEN 0
  ELSE scanstring(s, i + 1)

\* the character an escape of two characters stands for
Unescaped(c) ==
  CASE c = "b" -> "BS"
    [] c = "f" -> "FF"
    [] c = "n" -> "LF"
    [] c = "r" -> "CR"
    [] c = "t" -> "TAB"
    [] OTHER   -> c

\* the value of a hexadecimal digit
HexValue(c) ==
  IF c \in Digits THEN Ord[c] - Ord["0"]
  ELSE IF InRange(c, "a", "f") THEN Ord[c] - Ord["a"] + 10
  ELSE Ord[c] - Ord["A"] + 10

\* the character of \uXXXX whose digits start at position i: characters
\* beyond the 7-bit set are shown by their escape
Unicode(s, i) ==
  LET code == 4096 * HexValue(s[i]) + 256 * HexValue(s[i + 1])
              + 16 * HexValue(s[i + 2]) + HexValue(s[i + 3])
  IN  IF code < Len(Ascii) THEN << Ascii[code + 1] >>
      ELSE << "\\", "u", s[i], s[i + 1], s[i + 2], s[i + 3] >>

\* the text of the string scanstring accepts from position i
RECURSIVE string_value(_, _)
string_value(s, i) ==
  IF s[i] = "\"" THEN << >>
  ELSE IF s[i] = "\\" THEN
    IF s[i + 1] = "u" THEN Unicode(s, i + 2) \o string_value(s, i + 6)
    ELSE << Unescaped(s[i + 1]) >> \o string_value(s, i + 2)
  ELSE << s[i] >> \o string_value(s, i + 1)

\* NUMBER_RE.match(s, i): (-?(?:0|[1-9]\d*))(\.\d+)?([eE][-+]?\d+)? ; end is 0
\* for no match, digits is the length of the integer part without its sign.
\* The groups are matched one after the other, each from where the one before
\* it stopped: d is the position after the sign, int_end after the integer.
exponent(s, d, int_end, frac_end, e) ==
  LET exp_end == IF e # 0 /\ CharAt(s, e) \in Digits THEN After(s, e, Digits) ELSE frac_end
  IN  [end |-> exp_end, digits |-> int_end - d, is_float |-> exp_end # int_end]

fraction(s, d, int_end, frac_end) ==
  exponent(s, d, int_end, frac_end,
           IF frac_end # 0 /\ CharAt(s, frac_end) \in { "e", "E" }
             THEN IF CharAt(s, frac_end + 1) \in { "+", "-" } THEN frac_end + 2 ELSE frac_end + 1
             ELSE 0)

integer(s, d, int_end) ==
  fraction(s, d, int_end,
           IF int_end # 0 /\ CharAt(s, int_end) = "." /\ CharAt(s, int_end + 1) \in Digits
             THEN After(s, int_end + 1, Digits)
             ELSE int_end)

sign(s, d) ==
  integer(s, d, IF CharAt(s, d) = "0" THEN d + 1
                ELSE IF CharAt(s, d) \in Digits THEN After(s, d, Digits)
                ELSE 0)

match_number(s, i) == sign(s, IF CharAt(s, i) = "-" THEN i + 1 ELSE i)

\* scan_once(s, i) of json.scanner, JSONArray and JSONObject of json.decoder;
\* StopIteration is shown as the JSONDecodeError every caller turns it into
RECURSIVE scan_once(_, _)
RECURSIVE ArrayItems(_, _, _)
RECURSIVE ObjectPairs(_, _, _)

\* JSONArray from the position after "["
JSONArray(s, i) ==
  LET first == After(s, i, JSON_WHITESPACE)
  IN  IF CharAt(s, first) = "]" THEN Scanned(first + 1, PyList(<< >>))
      ELSE ArrayItems(s, first, << >>)

\* one turn of the loop of JSONArray after scan_once gave v: v is appended to
\* values, then "]" ends the list and "," goes on to the next value
ArrayAppend(s, v, values) ==
  LET sep == After(s, v.end, JSON_WHITESPACE)
  IN  IF v.raised # "" THEN v
      ELSE IF CharAt(s, sep) = "]" THEN Scanned(sep + 1, PyList(Append(values, v.val)))
      ELSE IF CharAt(s, sep) = ","
        THEN ArrayItems(s, After(s, sep + 1, JSON_WHITESPACE), Append(values, v.val))
      ELSE Raises("JSONDecodeError")

\* the loop of JSONArray: the next value is at i, values holds the ones
\* appended so far
ArrayItems(s, i, values) == ArrayAppend(s, scan_once(s, i), values)

\* JSONObject from the position after "{"
JSONObject(s, i) ==
  LET k == After(s, i, JSON_WHITESPACE)
  IN  IF CharAt(s, k) = "}" THEN Scanned(k + 1, PyDict(<< >>))
      ELSE IF CharAt(s, k) = "\"" THEN ObjectPairs(s, k + 1, << >>)
      ELSE Raises("JSONDecodeError")

\* one turn of the loop of JSONObject after scan_once gave the value v of
\* key: a key met again takes the later value, "}" ends the object and
\* "," before a quote goes on to the next key
PairAppend(s, key, v, pairs) ==
  LET sep == After(s, v.end, JSON_WHITESPACE)
      nxt == After(s, sep + 1, JSON_WHITESPACE)
  IN  IF v.raised # "" THEN v
      ELSE IF CharAt(s, sep) = "}" THEN Scanned(sep + 1, PyDict((key :> v.val) @@ pairs))
      ELSE IF CharAt(s, sep) = "," /\ CharAt(s, nxt) = "\""
        THEN ObjectPairs(s, nxt + 1, (key :> v.val) @@ pairs)
      ELSE Raises("JSONDecodeError")

\* the part of a turn of the loop of JSONObject after the key, which stopped
\* at key_end
PairValue(s, i, key_end, pairs) ==
  LET colon == After(s, key_end, JSON_WHITESPACE)
  IN  IF key_end = 0 THEN Raises("JSONDecodeError")
      ELSE IF CharAt(s, colon) # ":" THEN Raises("JSONDecodeError")
      ELSE PairAppend(s, string_value(s, i),
                      scan_once(s, After(s, colon + 1, JSON_WHITESPACE)), pairs)

\* the loop of JSONObject: the first character of the next key is at i,
\* pairs holds the pairs so far
ObjectPairs(s, i, pairs) == PairValue(s, i, scanstring(s, i), pairs)

\* the branch of scan_once for a string, whose scan stopped at str_end
parse_string(s, i, str_end) ==
  IF str_end = 0 THEN Raises("JSONDecodeError")
  ELSE Scanned(str_end, PyStr(string_value(s, i + 1)))

\* the branches of scan_once after NUMBER_RE gave num: int() refuses more
\* digits than int_max_str_digits, float() takes any number of them
parse_number(s, i, num) ==
  IF num.end # 0 THEN
    IF ~num.is_float /\ num.digits > int_max_str_digits
      THEN Raises("ValueError")
      ELSE Scanned(num.end, PyNumber(SubSeq(s, i, num.end - 1)))
  ELSE IF StartsWithAt(s, << "N", "a", "N" >>, i) THEN Scanned(i + 3, PyNumber(SubSeq(s, i, i + 2)))
  ELSE IF StartsWithAt(s, << "I", "n", "f", "i", "n", "i", "t", "y" >>, i)
    THEN Scanned(i + 8, PyNumber(SubSeq(s, i, i + 7)))
  ELSE IF StartsWithAt(s, << "-", "I", "n", "f", "i", "n", "i", "t", "y" >>, i)
    THEN Scanned(i + 9, PyNumber(SubSeq(s, i, i + 8)))
  ELSE Raises("JSONDecodeError")

scan_once(s, i) ==
  IF CharAt(s, i) = "\"" THEN parse_string(s, i, scanstring(s, i + 1))
  ELSE IF CharAt(s, i) = "{" THEN JSONObject(s, i + 1)
  ELSE IF CharAt(s, i) = "[" THEN JSONArray(s, i + 1)
  ELSE IF StartsWithAt(s, << "n", "u", "l", "l" >>, i) THEN Scanned(i + 4, PyNone)
  ELSE IF StartsWithAt(s, << "t", "r", "u", "e" >>, i) THEN Scanned(i + 4, PyBool(TRUE))
  ELSE IF StartsWithAt(s, << "f", "a", "l", "s", "e" >>, i)
    THEN Scanned(i + 5, PyBool(FALSE))
  ELSE parse_number(s, i, match_number(s, i))

\* JSONDecoder.decode(s) after raw_decode gave obj: JSONDecodeError for text
\* after the value
decode(s, obj) ==
  IF obj.raised # "" THEN obj
  ELSE IF After(s, obj.end, JSON_WHITESPACE) # Len(s) + 1 THEN Raises("JSONDecodeError")
  ELSE obj

\* json.loads(output): TypeError for what is no string
json_loads(output) ==
  IF output = None THEN Raises("TypeError")
  ELSE decode(output, scan_once(output, After(output, 1, JSON_WHITESPACE)))

\* _tool_registry: a template is its literal pieces and its replacement
\* fields in order
Lit(t) == [lit |-> t]

Field(f) == [field |-> f]

tool_registry ==
  [ Clock_local_time |->
      [ during_status |-> << Lit("Checking the local time...") >>,
        after_status  |-> << Lit("Checking the local time...") >>,
        spinner       |-> "clock" ],
    Clock_utc_time |->
      [ during_status |-> << Lit("Checking the UTC time...") >>,
        after_status  |-> << Lit("Checking the UTC time...") >>,
        spinner       |-> "clock" ],
    Clock_start_stopwatch |->
      [ during_status |-> << Lit("Starting stopwatch...") >>,
        after_status  |-> << Lit("Starting stopwatch...") >>,
        spinner       |-> "clock" ],
    Clock_check_stopwatch |->
      [ during_status |-> << Lit("Checking stopwatch...") >>,
        after_status  |-> << Lit("Checking stopwatch...") >>,
        spinner       |-> "clock" ],
    KnowledgeBase_search |->
      [ during_status |-> << Lit("Searching knowledgebase for '"), Field("query"), Lit("'...") >>,
        after_status  |-> << Lit("Reading through "), Field("result_count"),
                             Lit(" articles regarding '"), Field("query"), Lit("'...") >>,
        spinner       |-> "dots10" ],
    Web_search |->
      [ during_status |-> << Lit("Searching web for '"), Field("query"), Lit("'...") >>,
        after_status  |-> << Lit("Skimming through "), Field("result_count"),
                             Lit(" web results for '"), Field("query"), Lit("'...") >>,
        spinner       |-> "earth" ],
    Web_read_url |->
      [ during_status |-> << Lit("Fetching '"), Field("url"), Lit("'...") >>,
        after_status  |-> << Lit("Reading '"), Field("url"), Lit("'...") >>,
        spinner       |-> "earth" ] ]

\* template.format(**kwargs): KeyError for a field that kwargs does not
\* name, otherwise the template with every field replaced by its value
format(template, kwargs) ==
  IF \E k \in 1..Len(template) :
       "field" \in DOMAIN template[k] /\ template[k].field \notin DOMAIN kwargs
    THEN [raised |-> "KeyError"]
    ELSE [text |-> [k \in 1..Len(template) |->
                      IF "field" \in DOMAIN template[k]
                        THEN [val |-> kwargs[template[k].field]]
                        ELSE template[k]]]

\* f"Using {tool.name} with arguments {tool_call.arguments}"
during_fallback(name, arguments) ==
  [text |-> << Lit("Using "), [tool |-> name], Lit(" with arguments "),
               [repr |-> arguments] >>]

\* f"Reviewing output of {tool.name} call (arguments: {tool_call.arguments})"
after_fallback(name, arguments) ==
  [text |-> << Lit("Reviewing output of "), [tool |-> name], Lit(" call (arguments: "),
               [repr |-> arguments], Lit(")") >>]

\* during_call_status_message(tool, tool_call): the KeyError of the lookup
\* and the KeyError of format end in the same handler
during_call_status_message(name, arguments) ==
  LET formatted == format(tool_registry[name].during_status, arguments)
  IN  IF name \notin DOMAIN tool_registry THEN during_fallback(name, arguments)
      ELSE IF "raised" \in DOMAIN formatted THEN during_fallback(name, arguments)
      ELSE formatted

\* result_count of after_call_status_message from what json.loads gave
result_count(result) ==
  IF result.raised \in { "JSONDecodeError", "TypeError" } THEN 0
  ELSE IF result.is_list THEN result.len
  ELSE 1

\* {**tool_call.arguments, 'result_count': result_count}
template_vars(arguments, n) ==
  [k \in DOMAIN arguments \cup { "result_count" } |->
     IF k = "result_count" THEN str(n) ELSE arguments[k]]

\* after_call_status_message(tool, tool_call, tool_result): an exception of
\* json.loads that is neither JSONDecodeError nor TypeError leaves the function
after_call_status_message(name, arguments, output) ==
  LET result == json_loads(output)
      formatted == format(tool_registry[name].after_status,
                          template_vars(arguments, result_count(result)))
  IN  IF result.raised \notin { "", "JSONDecodeError", "TypeError" }
        THEN [raised |-> result.raised]
      ELSE IF name \notin DOMAIN tool_registry THEN after_fallback(name, arguments)
      ELSE IF "raised" \in DOMAIN formatted THEN after_fallback(name, arguments)
      ELSE formatted

\* spinner(tool)
spinner(name) ==
  IF name \in DOMAIN tool_registry THEN tool_registry[name].spinner ELSE "dots10"

\* the tools a call may name: the registered ones and one that is not
ToolNames == DOMAIN tool_registry \cup { "UnknownTool" }

\* the arguments of a call: none, the query of a search with and without
\* further arguments, the url of a page
ToolArguments ==
  { << >>,
    [query |-> << "t", "l", "a" >>],
    [query |-> << "t", "l", "a" >>, limit |-> << "5" >>],
    [query |-> << "t", "l", "a" >>, result_count |-> << "9" >>],
    [url |-> << "h", "t", "t", "p", ":", "/", "/", "x" >>] }

\* what a tool may give back: nothing, and the texts
\*   'Not JSON'
\*   '[{"id": 1}, {"id": 2}, {"id": 3}]'
\*   '[]'
\*   '[1, 2]'
\*   'null'
\*   '3'
\*   '"abc"'
\*   '{"a": [1, 2]}'
\*   ''
\*   '[1,]'
\*   '[1, 2'
\*   ' [1]\n'
\*   '[[1, 2], 3]'
\*   '[1] 2'
\* and whole numbers of as many digits as int() takes, and of one more
ToolOutputs ==
  { None,
    << "N", "o", "t", " ", "J", "S", "O", "N" >>,
    << "[", "{", "\"", "i", "d", "\"", ":", " ", "1", "}", ",", " ", "{", "\"", "i", "d", "\"", ":", " ", "2", "}", ",", " ", "{", "\"", "i", "d", "\"", ":", " ", "3", "}", "]" >>,
    << "[", "]" >>,
    << "[", "1", ",", " ", "2", "]" >>,
    << "n", "u", "l", "l" >>,
    << "3" >>,
    << "\"", "a", "b", "c", "\"" >>,
    << "{", "\"", "a", "\"", ":", " ", "[", "1", ",", " ", "2", "]", "}" >>,
    <<  >>,
    << "[", "1", ",", "]" >>,
    << "[", "1", ",", " ", "2" >>,
    << " ", "[", "1", "]", "LF" >>,
    << "[", "[", "1", ",", " ", "2", "]", ",", " ", "3", "]" >>,
    << "[", "1", "]", " ", "2" >>,
    [i \in 1..int_max_str_digits |-> "1"],
    [i \in 1..(int_max_str_digits + 1) |-> "1"] }

\* the converter is not run
NoConversion ==
  /\ lines = << >>
  /\ idx = 1
  /\ in_session = InitialState.in_session
  /\ current_command = InitialState.current_command
  /\ current_output = InitialState.current_output
  /\ command_id = InitialState.command_id
  /\ commands = InitialState.commands
  /\ raw_content = None
  /\ transcript = None
  /\ text_in = None
  /\ text_once = None
  /\ text_twice = None
  /\ disk_input = Missing
  /\ verbose = FALSE
  /\ fault = "none"
  /\ out_file = Missing
  /\ written = 0
  /\ stdout = << >>
  /\ stderr = << >>
  /\ exit_code = None
  /\ other_call = None

\* a call not made yet
Pending == [pending |-> TRUE]

\* one tool call, its output at hand, before any helper is called
InitStatus ==
  /\ pc = "status"
  /\ status_in \in [name : ToolNames, arguments : ToolArguments, output : ToolOutputs]
  /\ status_out = [during |-> Pending, after |-> Pending, spinner |-> Pending]
  /\ NoConversion
  /\ NoShaidow

conversion_vars ==
  << parse_vars, raw_content, transcript, clean_vars, tool_vars, other_call >>

\* during_call_status_message(tool, tool_call)
DuringCall ==
  /\ pc = "status"
  /\ status_out.during = Pending
  /\ status_out' = [status_out EXCEPT
       !.during = during_call_status_message(status_in.name, status_in.arguments)]
  /\ UNCHANGED << pc, status_in, conversion_vars, shaidow_vars >>

\* after_call_status_message(tool, tool_call, tool_result)
AfterCall ==
  /\ pc = "status"
  /\ status_out.after = Pending
  /\ status_out' = [status_out EXCEPT
       !.after = after_call_status_message(status_in.name, status_in.arguments,
                                           status_in.output)]
  /\ UNCHANGED << pc, status_in, conversion_vars, shaidow_vars >>

\* spinner(tool)
Spinner ==
  /\ pc = "status"
  /\ status_out.spinner = Pending
  /\ status_out' = [status_out EXCEPT !.spinner = [name |-> spinner(status_in.name)]]
  /\ UNCHANGED << pc, status_in, conversion_vars, shaidow_vars >>

NextStatus ==
  \/ DuringCall
  \/ AfterCall
  \/ Spinner

SpecStatus == InitStatus /\ [][NextStatus]_vars

\* ------------------------------------------------------------------------
\* shaidow: the commands read from the FIFO (src/shaidow.py)
\* ------------------------------------------------------------------------

\* the keys of the record of one command
ID == << "i", "d" >>

COMMAND == << "c", "o", "m", "m", "a", "n", "d" >>

OUTPUT == << "o", "u", "t", "p", "u", "t" >>

RETURN_TIMESTAMP ==
  << "r", "e", "t", "u", "r", "n", "_", "t", "i", "m", "e", "s", "t", "a", "m", "p" >>

\* data.get(key): None for a key the dict does not hold
dict_get(data, key) == IF key \in DOMAIN data.dict THEN data.dict[key] ELSE PyNone

\* a number of Python is zero: no digit of its mantissa differs from 0
IsZero(text) ==
  /\ text[1] \in Digits \cup { "-" }
  /\ CharAt(text, 2) # "I"
  /\ \A k \in 1..(After(text, 1, Digits \cup { "-", "." }) - 1) :
       text[k] \notin Digits \ { "0" }

\* bool(value): None, False, zero and what is empty are false
Truthy(value) ==
  CASE "none" \in DOMAIN value -> FALSE
    [] "bool" \in DOMAIN value -> value.bool
    [] "num" \in DOMAIN value  -> ~IsZero(value.num)
    [] "str" \in DOMAIN value  -> value.str # << >>
    [] "list" \in DOMAIN value -> value.list # << >>
    [] "dict" \in DOMAIN value -> DOMAIN value.dict # {}

\* datetime.fromisoformat accepts the text: a date, a date and a time of day
\* to the second, or these with an offset from UTC (the ranges of the
\* fields are not looked at)
IsIsoFormat(text) ==
  LET digits_at(ks) == \A k \in ks : text[k] \in Digits
      date == /\ Len(text) >= 10
              /\ digits_at({ 1, 2, 3, 4, 6, 7, 9, 10 })
              /\ text[5] = "-" /\ text[8] = "-"
      time_of_day == /\ Len(text) >= 19
                     /\ digits_at({ 12, 13, 15, 16, 18, 19 })
                     /\ text[14] = ":" /\ text[17] = ":"
      offset == /\ Len(text) = 25
                /\ text[20] \in { "+", "-" }
                /\ digits_at({ 21, 22, 24, 25 })
                /\ text[23] = ":"
  IN  date /\ (Len(text) = 10 \/ (time_of_day /\ (Len(text) = 19 \/ offset)))

\* Command(id, command, output, return_timestamp)
Command(id, command, output, return_timestamp) ==
  [raised |-> "",
   cmd |-> [id |-> id, command |-> command, output |-> output,
            return_timestamp |-> return_timestamp]]

\* an exception leaves from_json
NoCommand(e) == [raised |-> e, cmd |-> PyNone]

\* lines 74-79: cls(id=data.get("id"), ...)
cls(data, return_timestamp) ==
  Command(dict_get(data, ID), dict_get(data, COMMAND), dict_get(data, OUTPUT),
          return_timestamp)

\* lines 69-72: a datetime is shown by the text fromisoformat was given,
\* which is what isoformat(timespec='seconds') gives back for it
return_timestamp_of(data, timestamp_value) ==
  LET iso == replace(timestamp_value.str, << "Z" >>, << "+", "0", "0", ":", "0", "0" >>)
  IN  IF ~Truthy(timestamp_value) THEN cls(data, PyNone)
      ELSE IF "str" \notin DOMAIN timestamp_value THEN NoCommand("AttributeError")
      ELSE IF ~IsIsoFormat(iso) THEN NoCommand("ValueError")
      ELSE cls(data, [datetime |-> iso])

\* the body of from_json after json.loads gave loaded
from_loaded(loaded) ==
  IF loaded.raised # "" THEN NoCommand(loaded.raised)
  ELSE IF "dict" \notin DOMAIN loaded.val THEN NoCommand("AttributeError")
  ELSE return_timestamp_of(loaded.val, dict_get(loaded.val, RETURN_TIMESTAMP))

\* Command.from_json(json_str): the Command, or the exception that leaves
\* the method
from_json(json_str) == from_loaded(json_loads(json_str))

\* build_prompt(cmd): the comment itself, or the text about the command, its
\* output and when it finished; AttributeError for a command that is no str
\* and for a command without its timestamp
build_prompt(cmd) ==
  IF "str" \notin DOMAIN cmd.command THEN [raised |-> "AttributeError"]
  ELSE IF StartsWithAt(strip(cmd.command.str), << "#" >>, 1)
    THEN [raised |-> "", prompt |-> [comment |-> cmd.command.str]]
  ELSE IF "datetime" \notin DOMAIN cmd.return_timestamp THEN [raised |-> "AttributeError"]
  ELSE [raised |-> "",
        prompt |-> [command |-> cmd.command.str, output |-> cmd.output,
                    finished |-> cmd.return_timestamp.datetime]]

PROMPT_COMMAND ==
  << "P", "R", "O", "M", "P", "T", "_", "C", "O", "M", "M", "A", "N", "D" >>

\* s.endswith(p)
EndsWith(s, p) == Len(p) <= Len(s) /\ SubSeq(s, Len(s) - Len(p) + 1, Len(s)) = p

\* the check of line 114 without its second half
IsSkipped_PromptCommandOnly(command) == StartsWithAt(command, PROMPT_COMMAND, 1)

\* cmd.command.startswith("PROMPT_COMMAND") or stripped_cmd.endswith("#i")
IsSkipped(command) ==
  \/ StartsWithAt(command, PROMPT_COMMAND, 1)
  \/ EndsWith(strip(command), << "#", "i" >>)

\* len(stripped_cmd) >= 2 and all(c == "#" for c in stripped_cmd)
IsDirective(stripped_cmd) ==
  /\ Len(stripped_cmd) >= 2
  /\ \A k \in 1..Len(stripped_cmd) : stripped_cmd[k] = "#"

\* an index that takes ## for the command before the last one
command_index_FromOne(stripped_cmd) == Len(stripped_cmd) - 1

\* command_index = num_hashes - 2
command_index(stripped_cmd) == Len(stripped_cmd) - 2

\* suggested_commands[-(command_index + 1)]
command_to_send(suggested, index) == suggested[Len(suggested) - index]

\* flatten_markdown_tokens(tokens): the tokens and, for a token with
\* children that is neither an image nor a fence, its children in its place
RECURSIVE flatten_markdown_tokens(_)
flatten_markdown_tokens(tokens) ==
  IF tokens = << >> THEN << >>
  ELSE LET token == Head(tokens)
           is_fence == token.type = "fence"
           is_image == token.tag = "img"
       IN  (IF token.children # << >> /\ ~(is_image \/ is_fence)
              THEN flatten_markdown_tokens(token.children)
              ELSE << token >>)
           \o flatten_markdown_tokens(Tail(tokens))

\* the code_blocks of record_suggested_command
code_blocks(tokens) ==
  LET fences == SelectSeq(flatten_markdown_tokens(tokens),
                          LAMBDA token : token.type = "fence" /\ token.tag = "code")
  IN  [k \in 1..Len(fences) |-> strip(fences[k].content)]

\* ------------------------------------------------------------------------
\* shaidow: the process, from the making of the FIFO to the clean-up
\* ------------------------------------------------------------------------

\* the number of lines the writer of the FIFO writes
MaxFifoLines == 2

\* the lines the shell hook may write, each with its line feed
\* a command, its output and when it finished:  {"id":"1","command":"ls","output":"a","return_timestamp":"2025-01-15T10:30:45Z"}
LineLs ==
  << "{", "\"", "i", "d", "\"", ":", "\"", "1", "\"", ",", "\"", "c", "o",
     "m", "m", "a", "n", "d", "\"", ":", "\"", "l", "s", "\"", ",", "\"",
     "o", "u", "t", "p", "u", "t", "\"", ":", "\"", "a", "\"", ",", "\"",
     "r", "e", "t", "u", "r", "n", "_", "t", "i", "m", "e", "s", "t", "a",
     "m", "p", "\"", ":", "\"", "2", "0", "2", "5", "-", "0", "1", "-", "1",
     "5", "T", "1", "0", ":", "3", "0", ":", "4", "5", "Z", "\"", "}", "LF" >>

\* the shell setting PROMPT_COMMAND:  {"id":"0","command":"PROMPT_COMMAND=x","output":"","return_timestamp":"2025-01-15T10:30:45Z"}
LinePromptCommand ==
  << "{", "\"", "i", "d", "\"", ":", "\"", "0", "\"", ",", "\"", "c", "o",
     "m", "m", "a", "n", "d", "\"", ":", "\"", "P", "R", "O", "M", "P", "T",
     "_", "C", "O", "M", "M", "A", "N", "D", "=", "x", "\"", ",", "\"", "o",
     "u", "t", "p", "u", "t", "\"", ":", "\"", "\"", ",", "\"", "r", "e",
     "t", "u", "r", "n", "_", "t", "i", "m", "e", "s", "t", "a", "m", "p",
     "\"", ":", "\"", "2", "0", "2", "5", "-", "0", "1", "-", "1", "5", "T",
     "1", "0", ":", "3", "0", ":", "4", "5", "Z", "\"", "}", "LF" >>

\* a command marked with #i:  {"id":"2","command":"top #i","output":"","return_timestamp":"2025-01-15T10:30:45Z"}
LineInteractive ==
  << "{", "\"", "i", "d", "\"", ":", "\"", "2", "\"", ",", "\"", "c", "o",
     "m", "m", "a", "n", "d", "\"", ":", "\"", "t", "o", "p", " ", "#", "i",
     "\"", ",", "\"", "o", "u", "t", "p", "u", "t", "\"", ":", "\"", "\"",
     ",", "\"", "r", "e", "t", "u", "r", "n", "_", "t", "i", "m", "e", "s",
     "t", "a", "m", "p", "\"", ":", "\"", "2", "0", "2", "5", "-", "0", "1",
     "-", "1", "5", "T", "1", "0", ":", "3", "0", ":", "4", "5", "Z", "\"",
     "}", "LF" >>

\* a shell comment marked with #i, a space after it:  {"id":"3","command":"# no #i ","output":"","return_timestamp":"2025-01-15T10:30:45Z"}
LineCommentIgnored ==
  << "{", "\"", "i", "d", "\"", ":", "\"", "3", "\"", ",", "\"", "c", "o",
     "m", "m", "a", "n", "d", "\"", ":", "\"", "#", " ", "n", "o", " ", "#",
     "i", " ", "\"", ",", "\"", "o", "u", "t", "p", "u", "t", "\"", ":",
     "\"", "\"", ",", "\"", "r", "e", "t", "u", "r", "n", "_", "t", "i", "m",
     "e", "s", "t", "a", "m", "p", "\"", ":", "\"", "2", "0", "2", "5", "-",
     "0", "1", "-", "1", "5", "T", "1", "0", ":", "3", "0", ":", "4", "5",
     "Z", "\"", "}", "LF" >>

\* the directive ##:  {"id":"4","command":"##","output":"","return_timestamp":"2025-01-15T10:30:45Z"}
LineTypeLast ==
  << "{", "\"", "i", "d", "\"", ":", "\"", "4", "\"", ",", "\"", "c", "o",
     "m", "m", "a", "n", "d", "\"", ":", "\"", "#", "#", "\"", ",", "\"",
     "o", "u", "t", "p", "u", "t", "\"", ":", "\"", "\"", ",", "\"", "r",
     "e", "t", "u", "r", "n", "_", "t", "i", "m", "e", "s", "t", "a", "m",
     "p", "\"", ":", "\"", "2", "0", "2", "5", "-", "0", "1", "-", "1", "5",
     "T", "1", "0", ":", "3", "0", ":", "4", "5", "Z", "\"", "}", "LF" >>

\* the directive ###, a space before it:  {"id":"5","command":" ###","output":"","return_timestamp":"2025-01-15T10:30:45Z"}
LineTypeSecondLast ==
  << "{", "\"", "i", "d", "\"", ":", "\"", "5", "\"", ",", "\"", "c", "o",
     "m", "m", "a", "n", "d", "\"", ":", "\"", " ", "#", "#", "#", "\"", ",",
     "\"", "o", "u", "t", "p", "u", "t", "\"", ":", "\"", "\"", ",", "\"",
     "r", "e", "t", "u", "r", "n", "_", "t", "i", "m", "e", "s", "t", "a",
     "m", "p", "\"", ":", "\"", "2", "0", "2", "5", "-", "0", "1", "-", "1",
     "5", "T", "1", "0", ":", "3", "0", ":", "4", "5", "Z", "\"", "}", "LF" >>

\* a shell comment, nothing else:  {"command":"# hi"}
LineComment ==
  << "{", "\"", "c", "o", "m", "m", "a", "n", "d", "\"", ":", "\"", "#", " ",
     "h", "i", "\"", "}", "LF" >>

\* a line that is not JSON:  oops
LineNotJson ==
  << "o", "o", "p", "s", "LF" >>

\* a record without command, output and timestamp:  {"id":"6"}
LineNoCommand ==
  << "{", "\"", "i", "d", "\"", ":", "\"", "6", "\"", "}", "LF" >>

\* a record without timestamp:  {"id":"7","command":"ls","output":"a"}
LineNoTimestamp ==
  << "{", "\"", "i", "d", "\"", ":", "\"", "7", "\"", ",", "\"", "c", "o",
     "m", "m", "a", "n", "d", "\"", ":", "\"", "l", "s", "\"", ",", "\"",
     "o", "u", "t", "p", "u", "t", "\"", ":", "\"", "a", "\"", "}", "LF" >>

\* a record without output:  {"id":"8","command":"ls","return_timestamp":"2025-01-15T10:30:45Z"}
LineNoOutput ==
  << "{", "\"", "i", "d", "\"", ":", "\"", "8", "\"", ",", "\"", "c", "o",
     "m", "m", "a", "n", "d", "\"", ":", "\"", "l", "s", "\"", ",", "\"",
     "r", "e", "t", "u", "r", "n", "_", "t", "i", "m", "e", "s", "t", "a",
     "m", "p", "\"", ":", "\"", "2", "0", "2", "5", "-", "0", "1", "-", "1",
     "5", "T", "1", "0", ":", "3", "0", ":", "4", "5", "Z", "\"", "}", "LF" >>

FifoPool ==
  { LineLs,
    LinePromptCommand,
    LineInteractive,
    LineCommentIgnored,
    LineTypeLast,
    LineTypeSecondLast,
    LineComment,
    LineNotJson,
    LineNoCommand,
    LineNoTimestamp,
    LineNoOutput }

\* Command.from_json of the lines of the pool
FifoParsed == [json_str \in FifoPool |-> from_json(json_str)]

Parsed(json_str) == FifoParsed[json_str]

\* what the writer writes before it closes its end
FifoContents == UNION { [1..n -> FifoPool] : n \in 0..MaxFifoLines }

\* the tokens of a parsed response: a paragraph, a code span, a fenced code
\* block
Token(type, tag, text, children) ==
  [type |-> type, tag |-> tag, content |-> text, children |-> children]

Paragraph ==
  Token("inline", "", << "t", "r", "y" >>,
        << Token("text", "", << "t", "r", "y", " " >>, << >>),
           Token("code_inline", "code", << "l", "s" >>, << >>) >>)

Fence(text) == Token("fence", "code", text, << >>)

\* the responses of the model: no code block, two code blocks
Responses ==
  { << Paragraph >>,
    << Fence(<< "b", "LF" >>), Paragraph, Fence(<< "c", " ", "d", "LF" >>) >> }

\* the request to the model fails
Failure == << Token("failure", "", << >>, << >>) >>

\* path of the FIFO given with --fifo, temporary directory, pane of tmux
GivenFifo == << "/", "f" >>

TempDir == << "/", "t" >>

ShellPane == << "%", "1" >>

\* os.path.join(temp_dir, "fifo")
TempFifo == TempDir \o << "/", "f", "i", "f", "o" >>

\* the command lines looked at, each with the paths there are at its start
ShaidowArgs ==
  { [fifo |-> PyNone, tmux_shell_pane |-> PyStr(ShellPane),
     sysprompt_only_once |-> FALSE, verbose |-> FALSE, there |-> {}],
    [fifo |-> PyStr(GivenFifo), tmux_shell_pane |-> PyStr(ShellPane),
     sysprompt_only_once |-> TRUE, verbose |-> TRUE, there |-> { GivenFifo }],
    [fifo |-> PyStr(GivenFifo), tmux_shell_pane |-> PyNone,
     sysprompt_only_once |-> FALSE, verbose |-> FALSE, there |-> {}] }

\* a name not bound yet
Unbound == [unbound |-> TRUE]

\* the process after  args = parser.parse_args()
InitShaidow ==
  /\ pc = "start"
  /\ shaidow_args \in ShaidowArgs
  /\ files = shaidow_args.there
  /\ temp_dir = Unbound
  /\ fifo_path = Unbound
  /\ fifo_lines \in FifoContents
  /\ writer_open = TRUE
  /\ fifo_line = << >>
  /\ suggested_commands = << >>
  /\ prompts = << >>
  /\ console = << >>
  /\ tmux_keys = << >>
  /\ NoConversion
  /\ NoToolCall

\* what no step of shaidow changes
outside_shaidow == << parse_vars, raw_content, transcript, clean_vars, tool_vars,
                      other_call, status_vars >>

\* console.print and print of rich
Printed(items) == console' = console \o items

\* lines 185-199: the FIFO of --fifo, made if it is not there, or a FIFO in
\* a new temporary directory
CreateFifo ==
  /\ pc = "start"
  /\ IF Truthy(shaidow_args.fifo)
       THEN /\ fifo_path' = shaidow_args.fifo
            /\ files' = files \cup { shaidow_args.fifo.str }
            /\ temp_dir' = PyNone
       ELSE /\ temp_dir' = PyStr(TempDir)
            /\ fifo_path' = PyStr(TempFifo)
            /\ files' = files \cup { TempDir, TempFifo }
  /\ IF shaidow_args.verbose
       THEN Printed(<< [print |-> "Pipe your shell into {}", path |-> fifo_path'] >>)
       ELSE Printed(<< >>)
  /\ pc' = "init"
  /\ UNCHANGED << shaidow_args, fifo_lines, writer_open, fifo_line, suggested_commands,
                  prompts, tmux_keys, outside_shaidow >>

\* what is printed for a response: the Markdown, and the usage with --verbose
Shown(response) ==
  << [print |-> "markdown", tokens |-> response] >>
  \o (IF shaidow_args.verbose THEN << [print |-> "usage"] >> ELSE << >>)

\* lines 215-221: the first request, with the system prompt
InitConversation ==
  /\ pc = "init"
  /\ \E response \in Responses \cup { Failure } :
       /\ prompts' = Append(prompts, [prompt |-> [comment |-> << "#", " ", "H", "e", "l", "l", "o", "!" >>],
                                      system |-> TRUE])
       /\ IF response = Failure
            THEN /\ pc' = "crashed"
                 /\ UNCHANGED << console, suggested_commands >>
            ELSE /\ pc' = "readline"
                 /\ Printed(Shown(response))
                 /\ suggested_commands' = suggested_commands \o code_blocks(response)
  /\ UNCHANGED << shaidow_args, files, temp_dir, fifo_path, fifo_lines, writer_open,
                  fifo_line, tmux_keys, outside_shaidow >>

\* the writer of the FIFO closes its end; the process sees it at its next
\* readline and nowhere else
WriterCloses ==
  /\ writer_open
  /\ pc = "readline"
  /\ writer_open' = FALSE
  /\ UNCHANGED << pc, shaidow_args, files, temp_dir, fifo_path, fifo_lines, fifo_line,
                  suggested_commands, prompts, console, tmux_keys, outside_shaidow >>

\* line 101: line = fifo.readline(), which waits while the FIFO is empty and
\* its writer has it open, and gives '' once the writer has closed
ReadLine ==
  /\ pc = "readline"
  /\ IF fifo_lines # << >>
       THEN /\ fifo_line' = Head(fifo_lines)
            /\ fifo_lines' = Tail(fifo_lines)
       ELSE /\ ~writer_open
            /\ fifo_line' = << >>
            /\ UNCHANGED fifo_lines
  /\ pc' = "line"
  /\ UNCHANGED << shaidow_args, files, temp_dir, fifo_path, writer_open,
                  suggested_commands, prompts, console, tmux_keys, outside_shaidow >>

\* what a pass of the loop over one line leaves alone
loop_frame == << shaidow_args, files, temp_dir, fifo_path, fifo_lines, writer_open,
                 fifo_line, outside_shaidow >>

\* lines 102-105: if not line: continue
EndOfFile ==
  /\ pc = "line"
  /\ fifo_line = << >>
  /\ pc' = "readline"
  /\ UNCHANGED << suggested_commands, prompts, console, tmux_keys, loop_frame >>

\* lines 106-110: Command.from_json raises json.JSONDecodeError or KeyError
ParseError ==
  /\ pc = "line"
  /\ fifo_line # << >>
  /\ Parsed(fifo_line).raised \in { "JSONDecodeError", "KeyError" }
  /\ Printed(<< [print |-> "Error parsing JSON: {}", e |-> Parsed(fifo_line).raised] >>)
  /\ pc' = "readline"
  /\ UNCHANGED << suggested_commands, prompts, tmux_keys, loop_frame >>

\* lines 107 and 113: an exception of Command.from_json that line 108 does
\* not name, or the AttributeError of cmd.command.strip() for a command that
\* is no str, leaves main and ends the process with its traceback
Uncaught ==
  /\ pc = "line"
  /\ fifo_line # << >>
  /\ \/ Parsed(fifo_line).raised \notin { "", "JSONDecodeError", "KeyError" }
     \/ /\ Parsed(fifo_line).raised = ""
        /\ "str" \notin DOMAIN Parsed(fifo_line).cmd.command
  /\ pc' = "crashed"
  /\ UNCHANGED << suggested_commands, prompts, console, tmux_keys, loop_frame >>

\* the line at hand gave a Command whose command is a str
HaveCommand ==
  /\ pc = "line"
  /\ fifo_line # << >>
  /\ Parsed(fifo_line).raised = ""
  /\ "str" \in DOMAIN Parsed(fifo_line).cmd.command

\* cmd and stripped_cmd of main
Cmd == Parsed(fifo_line).cmd

StrippedCmd == strip(Cmd.command.str)

\* lines 112-115: the PROMPT_COMMAND setting and the commands ending in #i
Skip ==
  /\ HaveCommand
  /\ IsSkipped(Cmd.command.str)
  /\ pc' = "readline"
  /\ UNCHANGED << suggested_commands, prompts, console, tmux_keys, loop_frame >>

\* lines 117-139: the directive of two or more #; tmux send-keys may fail
Directive ==
  /\ HaveCommand
  /\ ~IsSkipped(Cmd.command.str)
  /\ IsDirective(StrippedCmd)
  /\ LET index == command_index(StrippedCmd)
     IN  IF Truthy(shaidow_args.tmux_shell_pane) /\ suggested_commands # << >>
           THEN IF index < Len(suggested_commands)
                  THEN \E sent \in BOOLEAN :
                         /\ tmux_keys' = Append(tmux_keys,
                              [pane |-> shaidow_args.tmux_shell_pane.str,
                               keys |-> command_to_send(suggested_commands, index),
                               sent |-> sent])
                         /\ IF sent THEN Printed(<< >>)
                            ELSE Printed(<< [print |-> "Error sending keys to tmux pane: {}"] >>)
                  ELSE /\ Printed(<< [print |->
                            "No command available at position {} (only {} commands suggested)",
                            position |-> index + 1,
                            suggested |-> Len(suggested_commands)] >>)
                       /\ UNCHANGED tmux_keys
           ELSE UNCHANGED << console, tmux_keys >>
  /\ pc' = "readline"
  /\ UNCHANGED << suggested_commands, prompts, loop_frame >>

\* lines 142-149: the rule with the id and the command
Header ==
  << [print |-> ""],
     [print |-> "rule", id |-> Cmd.id, command |-> Cmd.command.str,
      truncated |-> ~shaidow_args.verbose] >>

\* f"Error processing command {cmd.id}: {e}"
ErrorProcessing(e) == << [print |-> "Error processing command {}: {}", id |-> Cmd.id, e |-> e] >>

\* lines 141-170: the command, or the comment, goes to the model; whatever
\* is raised on the way is printed
Forward ==
  /\ HaveCommand
  /\ ~IsSkipped(Cmd.command.str)
  /\ ~IsDirective(StrippedCmd)
  /\ LET built == build_prompt(Cmd)
     IN  IF built.raised # ""
           THEN /\ Printed(Header \o ErrorProcessing(built.raised))
                /\ UNCHANGED << prompts, suggested_commands >>
           ELSE \E response \in Responses \cup { Failure } :
                  /\ prompts' = Append(prompts,
                       [prompt |-> built.prompt,
                        system |-> ~shaidow_args.sysprompt_only_once])
                  /\ IF response = Failure
                       THEN /\ Printed(Header \o ErrorProcessing("Exception"))
                            /\ UNCHANGED suggested_commands
                       ELSE /\ Printed(Header \o Shown(response))
                            /\ suggested_commands' =
                                 suggested_commands \o code_blocks(response)
  /\ pc' = "readline"
  /\ UNCHANGED << tmux_keys, loop_frame >>

\* lines 227-233, the statements after main(...): main has no break and no
\* return, so no step leads here
Cleanup ==
  /\ pc = "main returned"
  /\ IF Truthy(temp_dir)
       THEN files' = files \ { fifo_path.str, temp_dir.str }
       ELSE UNCHANGED files
  /\ pc' = "exited"
  /\ UNCHANGED << shaidow_args, temp_dir, fifo_path, fifo_lines, writer_open, fifo_line,
                  suggested_commands, prompts, console, tmux_keys, outside_shaidow >>

\* a step of the process itself
ShaidowStep ==
  \/ CreateFifo
  \/ InitConversation
  \/ ReadLine
  \/ EndOfFile
  \/ ParseError
  \/ Uncaught
  \/ Skip
  \/ Directive
  \/ Forward

NextShaidow ==
  \/ CreateFifo
  \/ InitConversation
  \/ WriterCloses
  \/ ReadLine
  \/ EndOfFile
  \/ ParseError
  \/ Uncaught
  \/ Skip
  \/ Directive
  \/ Forward

SpecShaidow == InitShaidow /\ [][NextShaidow]_vars

\* the process is scheduled as long as it can take a step
SpecShaidowFair == SpecShaidow /\ WF_vars(ShaidowStep)

\* ------------------------------------------------------------------------
\* The records of a transcript, read off its lines
\* ------------------------------------------------------------------------

\* the positions of ls that the loop segments: after the first start
\* sentinel and before the first end sentinel behind it
Segmented(ls) ==
  IF FirstStart(ls) = 0 THEN { }
  ELSE IF FirstEnd(ls) = 0 THEN (FirstStart(ls) + 1)..Len(ls)
  ELSE (FirstStart(ls) + 1)..(FirstEnd(ls) - 1)

\* the last prompt line of ls before position i (0: there is none)
LastPromptBefore(ls, i) ==
  LET P == { j \in Segmented(ls) : j < i /\ IsPrompt(ls[j]) }
  IN  IF P = { } THEN 0 ELSE CHOOSE j \in P : \A k \in P : k <= j

\* the first prompt line of ls after position i, or the position where the
\* segmented lines end
NextPromptAfter(ls, i) ==
  LET P == { j \in Segmented(ls) : j > i /\ IsPrompt(ls[j]) }
  IN  IF P = { }
      THEN (IF FirstEnd(ls) = 0 THEN Len(ls) + 1 ELSE FirstEnd(ls))
      ELSE CHOOSE j \in P : \A k \in P : j <= k

\* no command is open when the loop comes to position i: no prompt line
\* before i or a bare one, and no command-like line since
AwaitingAt(ls, i) ==
  LET p == LastPromptBefore(ls, i)
  IN  /\ p = 0 \/ IsBarePrompt(ls[p])
      /\ \A j \in Segmented(ls) : (p < j /\ j < i) => ~IsCommandLike(ls[j])

\* line i of ls opens a command
IsOpener(ls, i) ==
  /\ i \in Segmented(ls)
  /\ \/ IsPromptWithText(ls[i])
     \/ IsCommandLike(ls[i]) /\ AwaitingAt(ls, i)

\* the command that the opening line i carries
CommandOf(ls, i) ==
  IF IsPrompt(ls[i]) THEN Trailing(Clean(ls[i])) ELSE strip(Clean(ls[i]))

\* the lines a..b of ls that are neither a start sentinel nor the echo of
\* cmd, in their order, each cleaned and right-trimmed
RECURSIVE Collected(_, _, _, _)
Collected(ls, a, b, cmd) ==
  IF a > b THEN << >>
  ELSE IF script_start(ls[b]) \/ strip(Clean(ls[b])) = cmd
  THEN Collected(ls, a, b - 1, cmd)
  ELSE Append(Collected(ls, a, b - 1, cmd), rstrip(Clean(ls[b])))

\* the opening lines of ls, in their order
RECURSIVE Openers(_, _)
Openers(ls, n) ==
  IF n = 0 THEN << >>
  ELSE IF IsOpener(ls, n) THEN Append(Openers(ls, n - 1), n)
  ELSE Openers(ls, n - 1)

\* the output lines of the command opened at line i: the lines between it
\* and the next prompt line
OutputLines(ls, i) ==
  Collected(ls, i + 1, NextPromptAfter(ls, i) - 1, CommandOf(ls, i))

\* C11: the output of every record is built from exactly the non-prompt,
\* non-echo lines between the line that opened its command and the next
\* prompt line (or the end of the session), in their order, each
\* right-trimmed, joined and stripped; so no line contributes to two records
\* and a command followed at once by a prompt has the output "".
C11_OutputFromCollectedLines ==
  pc = "done" =>
    LET o == Openers(lines, Len(lines))
    IN  /\ Len(commands) = Len(o)
        /\ \A k \in 1..Len(o) :
             /\ commands[k].command = CommandOf(lines, o[k])
             /\ commands[k].output = strip(join(OutputLines(lines, o[k])))

\* Scenario 1 gave (echo hi, hi) and (exit, "")
C11_Witness ==
  /\ pc = "done"
  /\ Len(lines) = 5
  /\ Clean(lines[2]) = << "u", "s", "e", "r", "@", "h", "o", "s", "t", ":",
                          "~", "$", " ", "e", "c", "h", "o", " ", "h", "i" >>
  /\ lines[3] = << "h", "i" >>
  /\ IsPromptWithText(lines[4])
  /\ script_end(lines[5])
  /\ commands =
       << [ id |-> << "1" >>, command |-> << "e", "c", "h", "o", " ", "h", "i" >>,
            output |-> << "h", "i" >> ],
          [ id |-> << "2" >>, command |-> << "e", "x", "i", "t" >>,
            output |-> << >> ] >>


\* the list without the blank lines at its start
RECURSIVE DropLeadingBlank(_)
DropLeadingBlank(ls) ==
  IF ls # << >> /\ strip(Head(ls)) = << >> THEN DropLeadingBlank(Tail(ls)) ELSE ls

\* the list without the blank lines at its end
RECURSIVE DropTrailingBlank(_)
DropTrailingBlank(ls) ==
  IF ls # << >> /\ strip(ls[Len(ls)]) = << >>
  THEN DropTrailingBlank(SubSeq(ls, 1, Len(ls) - 1))
  ELSE ls

\* C12: finalization strips only leading and trailing blank lines from the
\* joined output: the output of a record is its output lines without the
\* blank ones at both ends, joined, the indentation of the first non-blank
\* line kept.
C12_OnlyBlankLinesStripped ==
  pc = "done" =>
    LET o == Openers(lines, Len(lines))
    IN  \A k \in 1..Len(commands) :
          commands[k].output =
            join(DropTrailingBlank(DropLeadingBlank(OutputLines(lines, o[k]))))


\* C13: every emitted record has a command that is not None, not empty and
\* has no leading or trailing whitespace (stated of the newest record of
\* every state: each record is the newest one when it is emitted); a bare
\* prompt gets no record of its own: there are never more records than
\* lines that carry a command.
C13_CommandNeverEmpty ==
  /\ commands # << >> =>
       LET newest == commands[Len(commands)].command
       IN  /\ newest # None
           /\ newest # << >>
           /\ strip(newest) = newest
  /\ pc = "done" =>
       Len(commands) <=
         Cardinality({ i \in Segmented(lines) :
                         IsPromptWithText(lines[i]) \/ IsCommandLike(lines[i]) })

\* a session with a command from a prompt, bare prompts around it and an
\* implicit command gave two records
C13_Witness ==
  /\ pc = "done"
  /\ Len(lines) = 5
  /\ IsBarePrompt(lines[2])
  /\ IsPromptWithText(lines[3])
  /\ IsBarePrompt(lines[4])
  /\ IsCommandLike(lines[5])
  /\ Len(commands) = 2


\* C14: a step that changes the records appends exactly one record, and it
\* is taken either at a prompt line or at the code after the loop, in both
\* cases while a command is open; a step at a non-prompt line leaves the
\* records alone, and a step opens at most the one command that is open
\* after it.
C14_RecordsOnlyAtTwoPoints ==
  [][ /\ commands' # commands =>
           /\ Len(commands') = Len(commands) + 1
           /\ SubSeq(commands', 1, Len(commands)) = commands
           /\ current_command # None
           /\ commands'[Len(commands')].command = current_command
           /\ AtPromptLine \/ pc = "final"
      /\ AtOtherLine => commands' = commands
      /\ (current_command' # current_command /\ current_command' # None) =>
           (AtPromptLine \/ (AtOtherLine /\ current_command = None)) ]_vars

\* one record was created at a prompt line and one at termination
C14_Witness ==
  /\ pc = "done"
  /\ Len(lines) = 4
  /\ IsPromptWithText(lines[2])
  /\ ~IsPrompt(lines[3]) /\ ~IsSentinel(lines[3])
  /\ IsPromptWithText(lines[4])
  /\ Len(commands) = 2


\* C15: a transcript written with "\r\n" or with the lone "\r" in place of
\* every "\n" returns the records of the transcript written with "\n".
C15_LineEndingsEquivalent ==
  pc = "done" => commands = parse_script_output(join(transcript))

\* a session written with lone "\r" returned a record with its output
C15_Witness ==
  /\ pc = "done"
  /\ Len(transcript) = 3
  /\ \E i \in 1..Len(raw_content) : raw_content[i] = "CR"
  /\ \A i \in 1..Len(raw_content) : raw_content[i] # "LF"
  /\ Len(commands) = 1
  /\ commands[1].output # << >>


\* ------------------------------------------------------------------------
\* Properties of clean_line
\* ------------------------------------------------------------------------

\* C16: clean_line is idempotent: cleaning the result of clean_line again
\* gives the same text, also when the removal of a control byte has left a
\* text that matches a recognized sequence.
C16_CleanLineIdempotent ==
  pc = "cleaned" => text_twice = text_once

\* a character that is no control character: space to tilde
IsPrintable(c) == InRange(c, " ", "~")

\* the length of the title-setting, bracketed-paste or escape sequence that
\* begins at position i of the line s (0: none begins there); the escape
\* character before the title text and before the paste mode text belongs
\* to the sequence
SequenceLenAt(s, i) ==
  IF i + 1 <= Len(s) /\ s[i] = "ESC" /\ set_window_title(s, i + 1) > 0
    THEN 1 + set_window_title(s, i + 1)
  ELSE IF set_window_title(s, i) > 0 THEN set_window_title(s, i)
  ELSE IF i + 1 <= Len(s) /\ s[i] = "ESC" /\ bracketed_paste(s, i + 1) > 0
    THEN 1 + bracketed_paste(s, i + 1)
  ELSE IF bracketed_paste(s, i) > 0 THEN bracketed_paste(s, i)
  ELSE ansi_escape(s, i)

\* the printable characters of s, from position i on, that are part of no
\* such sequence
RECURSIVE PrintableOutsideSequences(_, _)
PrintableOutsideSequences(s, i) ==
  IF i > Len(s) THEN << >>
  ELSE IF SequenceLenAt(s, i) > 0
    THEN PrintableOutsideSequences(s, i + SequenceLenAt(s, i))
  ELSE IF IsPrintable(s[i])
    THEN << s[i] >> \o PrintableOutsideSequences(s, i + 1)
  ELSE PrintableOutsideSequences(s, i + 1)

\* the characters of a appear in b, in their order
RECURSIVE IsSubsequence(_, _)
IsSubsequence(a, b) ==
  IF a = << >> THEN TRUE
  ELSE IF b = << >> THEN FALSE
  ELSE IF Head(a) = Head(b) THEN IsSubsequence(Tail(a), Tail(b))
  ELSE IsSubsequence(a, Tail(b))

\* C17: clean_line removes only control sequences and control bytes: every
\* printable character of the line that is part of no title-setting,
\* bracketed-paste or escape sequence is in the result, in its order; the
\* text behind a title-setting sequence is kept whole.
C17_PrintableKept ==
  pc = "clean again" =>
    IsSubsequence(PrintableOutsideSequences(text_in, 1), text_once)

\* the number of tabs of s
Tabs(s) == Cardinality({ i \in 1..Len(s) : s[i] = "TAB" })

\* C18: the result of clean_line has no character of 0x00-0x08, 0x0B-0x1F
\* or 0x7F, and it has every tab of the line that is not inside a removed
\* sequence (the title text is the one sequence that can hold a tab).
C18_NoControlBytesTabsKept ==
  pc = "clean again" =>
    /\ \A i \in 1..Len(text_once) :
         /\ ~InRange(text_once[i], "NUL", "BS")
         /\ ~InRange(text_once[i], "VT", "US")
         /\ text_once[i] # "DEL"
    /\ Tabs(text_once) = Tabs(sub("set_window_title", text_in, 1))

\* a line with a tab, a title text that holds a tab, and an escape
\* character was cleaned to the one tab
C18_Witness ==
  /\ pc = "clean again"
  /\ text_in = << "TAB", "]", "0", ";", "TAB", "BEL", "ESC" >>
  /\ text_once = << "TAB" >>


\* ------------------------------------------------------------------------
\* Properties of the command-line run
\* ------------------------------------------------------------------------

\* the physical lines of the output file: the texts that end with "\n"
PhysicalLines ==
  LET p == split(out_file) IN SubSeq(p, 1, Len(p) - 1)

\* the first position of s where p begins (0: nowhere)
Find(s, p) ==
  LET at == { i \in 1..Len(s) : StartsWithAt(s, p, i) }
  IN  IF at = { } THEN 0 ELSE CHOOSE i \in at : \A j \in at : i <= j

\* the output file is being written or has been written by this run
OutputOpened == pc \in { "write", "report", "return" } \/ (pc = "exited" /\ written > 0)

\* C19: the output file holds one physical line per record written, in the
\* order of the records, each line the record with the fields id, command
\* and output in this order; a record whose output holds line feeds is one
\* line too, so when the writing is over the file has as many lines as
\* there are records.
C19_OneLinePerRecord ==
  OutputOpened =>
    /\ out_file = << >> \/ out_file[Len(out_file)] = "LF"
    /\ Len(PhysicalLines) = written
    /\ \A k \in 1..written :
         LET l == PhysicalLines[k]
         IN  /\ l = json_dumps(commands[k])
             /\ commands[k].id = str(k)
             /\ Find(l, KEY_ID) = 1
             /\ Find(l, KEY_ID) < Find(l, KEY_COMMAND)
             /\ Find(l, KEY_COMMAND) < Find(l, KEY_OUTPUT)
    /\ pc \in { "report", "return" } => written = Len(commands)

\* two records were written over an old output file, the first with a line
\* feed in its output
C19_Witness ==
  /\ pc = "report"
  /\ Len(commands) = 2
  /\ \E i \in 1..Len(commands[1].output) : commands[1].output[i] = "LF"
  /\ Len(PhysicalLines) = 2
  /\ disk_input # Missing
  /\ out_file # OldOutput

\* the run meets an operation that raises
FaultRaised ==
  \/ disk_input = Missing
  \/ fault \in { "read", "open output missing", "open output", "print" }
  \/ fault = "write" /\ parse_script_output(disk_input) # << >>

\* C20: the run ends with exit code 0 when the conversion succeeds, and
\* with exit code 1 and a message on the error stream when the input file
\* does not exist or another operation of the reading, parsing or writing
\* fails; it ends with no other exit code.
C20_ExitCodes ==
  pc = "exited" =>
    /\ exit_code \in { 0, 1 }
    /\ exit_code = 0 <=> ~FaultRaised
    /\ exit_code = 0 =>
         /\ stderr = << >>
         /\ commands = parse_script_output(disk_input)
         /\ written = Len(commands)
         /\ Len(PhysicalLines) = Len(commands)
    /\ exit_code = 1 => stderr # << >>
    /\ (disk_input = Missing /\ ~(verbose /\ fault = "print")) =>
         stderr = << << "Error: Input file '{}' not found.", input_file >> >>

\* a run whose second write failed ended with exit code 1 and a message
C20_Witness ==
  /\ pc = "exited"
  /\ fault = "write"
  /\ written = 1
  /\ Len(commands) = 2
  /\ exit_code = 1
  /\ stderr = << << "Error processing file: {}", "write" >> >>


\* the message of  except FileNotFoundError  is on the error stream
InputNotFoundReported ==
  \E i \in 1..Len(stderr) : stderr[i][1] = "Error: Input file '{}' not found."

\* the message of  except Exception  is on the error stream
UnexpectedFailureReported ==
  \E i \in 1..Len(stderr) : stderr[i][1] = "Error processing file: {}"

\* the run came into script_to_jsonl: no print of main raised
EnteredScriptToJsonl == ~(verbose /\ fault = "print")

\* C21: the input-not-found error is reported exactly when the input file
\* does not exist; a failure to open or to write the output file is
\* reported as "Error processing file", not as input not found.
C21_NotFoundOnlyForInput ==
  (pc = "exited" /\ EnteredScriptToJsonl) =>
    /\ InputNotFoundReported <=> disk_input = Missing
    /\ (disk_input # Missing /\ fault \in { "open output missing", "open output" }) =>
         UnexpectedFailureReported

\* the conversion summary is on the standard output
SummaryPrinted ==
  \E i \in 1..Len(stdout) :
    stdout[i][1] = "Successfully converted {} commands from {} to {}"

\* C22: the conversion summary is printed on success when the verbosity
\* flag is given, and only then: a successful run without the flag prints
\* no summary.
C22_SummaryOnlyWhenVerbose ==
  (pc = "exited" /\ exit_code = 0) => (SummaryPrinted <=> verbose)


\* ------------------------------------------------------------------------
\* Properties of two calls on one ScriptParser
\* ------------------------------------------------------------------------

\* C23: two parses on one ScriptParser are independent: however their
\* passes of the loop are interleaved, and in either order, each call
\* returns the records of its transcript parsed alone (the ids begin at
\* "1", no command and no buffer is carried over).
C23_CallsIndependent ==
  /\ pc = "done" => commands = parse_lines(lines)
  /\ other_call.pc = "done" =>
       /\ other_call.st.commands = parse_lines(other_call.lines)
       /\ \A k \in 1..Len(other_call.st.commands) :
            other_call.st.commands[k].id = str(k)

\* the second call has an open command and no record while the first call,
\* begun before it, has emitted a record and is still in its loop
C23_Witness ==
  /\ pc = "loop"
  /\ Len(commands) = 1
  /\ command_id = 2
  /\ other_call.pc = "loop"
  /\ other_call.idx = 3
  /\ other_call.st.current_command = << "l", "s" >>
  /\ other_call.st.command_id = 1


\* ------------------------------------------------------------------------
\* C24, C25: the status texts of a tool call
\* ------------------------------------------------------------------------

\* the tool of the call at hand is in the registry
Registered == status_in.name \in DOMAIN tool_registry

\* the registered after-call template with the call arguments, and some
\* count, substituted
IsAfterTemplate(message) ==
  \E n \in 0..3 :
    message = format(tool_registry[status_in.name].after_status,
                     template_vars(status_in.arguments, n))

\* C24: the status helpers never raise for an unknown tool: for a tool name
\* that is not in the registry during_call_status_message and
\* after_call_status_message return their fallback text naming the tool and
\* spinner returns "dots10"; for a registered tool the two return the
\* registered template with the call arguments substituted.
C24_FallbackForUnknownTool ==
  pc = "status" =>
    /\ (~Registered /\ status_out.during # Pending) =>
         status_out.during = during_fallback(status_in.name, status_in.arguments)
    /\ (~Registered /\ status_out.after # Pending) =>
         status_out.after = after_fallback(status_in.name, status_in.arguments)
    /\ (~Registered /\ status_out.spinner # Pending) =>
         status_out.spinner = [name |-> "dots10"]
    /\ (Registered /\ status_out.during # Pending) =>
         status_out.during =
           format(tool_registry[status_in.name].during_status, status_in.arguments)
    /\ (Registered /\ status_out.after # Pending) => IsAfterTemplate(status_out.after)

\* the count the claim gives for an output: by the grammar of JSON a run of
\* digits of any length is a number
ClaimedCount(output) ==
  LET result == json_loads(output)
  IN  IF result.raised \in { "JSONDecodeError", "TypeError" } THEN 0
      ELSE IF result.raised = "" /\ result.is_list THEN result.len
      ELSE 1

\* the call shows its count: a search that was given its query
ShowsCount ==
  /\ status_in.name \in { "KnowledgeBase_search", "Web_search" }
  /\ "query" \in DOMAIN status_in.arguments

\* C25: after_call_status_message returns a message for every tool output,
\* never raising, and the count in it is the length of the output parsed as
\* a JSON list, 1 for any other JSON value, 0 for what is not valid JSON or
\* not a string.
C25_ResultCount ==
  (pc = "status" /\ status_out.after # Pending) =>
    /\ "text" \in DOMAIN status_out.after
    /\ ShowsCount => status_out.after.text[2] = [val |-> str(ClaimedCount(status_in.output))]


\* ------------------------------------------------------------------------
\* C26 - C29: the loop of shaidow over the lines of the FIFO
\* ------------------------------------------------------------------------

\* the JSON values of the lines of the pool
FifoLoaded == [json_str \in FifoPool |-> json_loads(json_str)]

\* the line at hand is a record whose command is the text the claims speak
\* of
CommandRead ==
  /\ pc = "line"
  /\ fifo_line # << >>
  /\ FifoLoaded[fifo_line].raised = ""
  /\ "dict" \in DOMAIN FifoLoaded[fifo_line].val
  /\ COMMAND \in DOMAIN FifoLoaded[fifo_line].val.dict
  /\ "str" \in DOMAIN FifoLoaded[fifo_line].val.dict[COMMAND]

CommandText == FifoLoaded[fifo_line].val.dict[COMMAND].str

\* the command starts with PROMPT_COMMAND, or ends with #i once trimmed
MarkedIgnored ==
  LET trimmed == strip(CommandText)
  IN  \/ Len(CommandText) >= Len(PROMPT_COMMAND)
         /\ SubSeq(CommandText, 1, Len(PROMPT_COMMAND)) = PROMPT_COMMAND
      \/ Len(trimmed) >= 2
         /\ trimmed[Len(trimmed) - 1] = "#"
         /\ trimmed[Len(trimmed)] = "i"

\* nothing goes to the model, the console or the pane
Silent ==
  /\ prompts' = prompts
  /\ console' = console
  /\ tmux_keys' = tmux_keys
  /\ suggested_commands' = suggested_commands

\* C26: a received command that starts with PROMPT_COMMAND, or whose trimmed
\* text ends with #i, is not forwarded to the conversation and produces no
\* output, whether or not it is a shell comment or made of # only; the loop
\* goes on to the next line.
C26_IgnoredCommands ==
  [][(CommandRead /\ MarkedIgnored) => (Silent /\ pc' \in { "line", "readline" })]_vars

\* a shell comment ending in #i was read and passed over: the only request
\* so far is the first one
C26_Witness ==
  /\ pc = "readline"
  /\ fifo_line = LineCommentIgnored
  /\ Len(prompts) = 1
  /\ fifo_lines # << >>

\* the number k of the # a directive is made of, 0 for what is no directive
Hashes ==
  LET trimmed == strip(CommandText)
  IN  IF Len(trimmed) >= 2 /\ \A k \in 1..Len(trimmed) : trimmed[k] = "#"
        THEN Len(trimmed) ELSE 0

\* the code blocks of the responses printed so far, oldest first
RECURSIVE BlocksShown(_)
BlocksShown(printed) ==
  IF printed = << >> THEN << >>
  ELSE BlocksShown(SubSeq(printed, 1, Len(printed) - 1))
       \o (LET item == printed[Len(printed)]
           IN  IF item.print = "markdown"
                 THEN LET fences == SelectSeq(item.tokens, LAMBDA t : t.type = "fence")
                      IN  [k \in 1..Len(fences) |-> strip(fences[k].content)]
                 ELSE << >>)

\* the pane of tmux is configured
PaneConfigured == "str" \in DOMAIN shaidow_args.tmux_shell_pane

\* C27: a command of k >= 2 characters # and nothing else is a directive.
\* With a pane of tmux configured and at least k-1 commands suggested so far,
\* exactly the (k-1)-th most recently suggested command is sent to the pane
\* (## the last one, ### the one before); otherwise nothing is sent.  The
\* directive is never forwarded to the model and leaves the list of suggested
\* commands as it is, and that list holds the code blocks of the responses
\* oldest first.
C27_Directive ==
  [][/\ pc \notin { "start", "init", "crashed" } =>
          suggested_commands = BlocksShown(console)
     /\ (CommandRead /\ Hashes >= 2 /\ pc' # pc) =>
          /\ prompts' = prompts
          /\ suggested_commands' = suggested_commands
          /\ IF PaneConfigured /\ Len(suggested_commands) >= Hashes - 1
               THEN /\ Len(tmux_keys') = Len(tmux_keys) + 1
                    /\ SubSeq(tmux_keys', 1, Len(tmux_keys)) = tmux_keys
                    /\ tmux_keys'[Len(tmux_keys')].pane = ShellPane
                    /\ tmux_keys'[Len(tmux_keys')].keys =
                         suggested_commands[Len(suggested_commands) - (Hashes - 1) + 1]
               ELSE tmux_keys' = tmux_keys]_vars

\* ### was read with two commands suggested, b before c d, and b was sent
C27_Witness ==
  /\ pc = "readline"
  /\ fifo_line = LineTypeSecondLast
  /\ suggested_commands = << << "b" >>, << "c", " ", "d" >> >>
  /\ Len(tmux_keys) = 1
  /\ tmux_keys[1].keys = << "b" >>

\* the temporary FIFO and its directory are gone if the process made them
TemporaryFilesRemoved ==
  "str" \in DOMAIN temp_dir => (TempDir \notin files /\ TempFifo \notin files)

\* C28: once readline has returned end-of-file, the writer having closed,
\* the loop eventually completes and the clean-up has run: the temporary
\* FIFO and its directory are removed when the process created them.
C28_CleanupAfterEndOfFile ==
  (pc = "line" /\ fifo_line = << >>) ~> (pc = "exited" /\ TemporaryFilesRemoved)

\* C29: no line read from the FIFO ends the loop: whatever the line is (not
\* JSON, or a record without command, output or timestamp), the loop goes on
\* to read the next line.
C29_NoLineEndsLoop ==
  [][(pc = "line" /\ fifo_line # << >> /\ pc' # pc) => pc' = "readline"]_vars


\* ------------------------------------------------------------------------
\* C30: an end sentinel before any start sentinel
\* ------------------------------------------------------------------------

\* the first sentinel line of the transcript is an end sentinel
EndSentinelFirst ==
  /\ FirstEnd(lines) > 0
  /\ FirstStart(lines) = 0 \/ FirstEnd(lines) < FirstStart(lines)

\* C30: an end sentinel halts the loop also before any start sentinel: a
\* transcript whose first sentinel is an end sentinel is never read past
\* that line, no session starts and no record is returned, whatever start
\* sentinel and commands follow.
C30_EndSentinelBeforeStart ==
  EndSentinelFirst =>
    /\ idx <= FirstEnd(lines)
    /\ ~in_session
    /\ current_command = None
    /\ commands = << >>

\* the call returned nothing for an end sentinel that a start sentinel and
\* a prompt line with a command follow
C30_Witness ==
  /\ pc = "done"
  /\ commands = << >>
  /\ Len(lines) >= 3
  /\ script_end(lines[1])
  /\ script_start(lines[2])
  /\ IsPromptWithText(lines[3])


\* ------------------------------------------------------------------------
\* C31: the output file is opened only after the input is read and parsed
\* ------------------------------------------------------------------------

\* the input was read: it is there, its read did not raise, and content
\* holds its text
InputRead == disk_input # Missing /\ fault # "read" /\ raw_content = disk_input

\* parse_script_output has returned and the statements after it are at work
ParseReturned == pc \in { "done", "write" }

\* C31: script_to_jsonl opens, and thereby truncates, the output file only
\* after the input has been read and parse_script_output has returned: a
\* step that makes, empties or extends the output file is taken only then,
\* so a run whose input is missing or whose read fails leaves an existing
\* output file as it was and makes no new one.
C31_OutputOpenedAfterParse ==
  [][out_file' # out_file => (InputRead /\ ParseReturned)]_vars

\* a run that ended on a missing or unreadable input, with the output file
\* of an earlier run still there
C31_Witness ==
  /\ pc = "exited"
  /\ exit_code = 1
  /\ disk_input = Missing \/ fault = "read"
  /\ out_file = OldOutput


\* ------------------------------------------------------------------------
\* C32: a prompt needs a prefix before its terminator
\* ------------------------------------------------------------------------

\* the only terminator of s is its first character
TerminatorOnlyFirst(s) ==
  /\ s # << >>
  /\ IsTerminator(s[1])
  /\ \A i \in 2..Len(s) : ~IsTerminator(s[i])

\* the loop is at a line of the session whose cleaned text has its only
\* terminator as its first character
AtTerminatorFirstLine == AtSessionLine /\ TerminatorOnlyFirst(Cleaned)

\* the step over the line at hand takes it for a command typed without a
\* prompt: no record is made and the cleaned, trimmed line is the command
TakenAsImplicitCommand ==
  /\ current_command' = strip(Cleaned)
  /\ current_output' = << >>
  /\ commands' = commands
  /\ command_id' = command_id

\* the step over the line at hand takes it for output of the open command,
\* or for the echo of that command, which is dropped
TakenAsOutputOrEcho ==
  /\ current_command' = current_command
  /\ current_output' = IF strip(Cleaned) = current_command
                         THEN current_output
                         ELSE Append(current_output, rstrip(Cleaned))
  /\ commands' = commands
  /\ command_id' = command_id

\* C32: a prompt match needs a non-empty prefix before the terminator: a
\* cleaned line whose only terminator character ($, #, %, >) is its first
\* character is no prompt line; the loop handles it as any other line of the
\* session, as the command when none is open, as output or as the echo of
\* the command when one is open.
C32_PromptNeedsPrefix ==
  [][AtTerminatorFirstLine =>
       /\ ~prompt_match(Cleaned)
       /\ IF current_command = None
            THEN TakenAsImplicitCommand
            ELSE TakenAsOutputOrEcho]_vars

\* the parse has met such a line with no command open, as output of an open
\* command and as the echo of the open command
C32_Witness ==
  /\ pc = "done"
  /\ \E i, j, k \in 2..Len(lines) :
       /\ i < j /\ j < k
       /\ lines[i] = << ">", " ", "f", "o", "o" >>
       /\ lines[j] = << "ESC", "[", "0", "m", "#", " ", "x" >>
       /\ lines[k] = lines[i]
  /\ Len(commands) = 1
  /\ commands[1].command = << ">", " ", "f", "o", "o" >>
  /\ commands[1].output = << "#", " ", "x" >>

====
